---- MODULE Spec2Model ----
(***************************************************************************)
(* Motion-control core of the Perseverance AUV:                            *)
(*   Sub/Src/Dynamics/navigation_controller.py  (Navigation_Controller)    *)
(*   Sub/Src/Dynamics/movement_pid.py           (Movement_PID)             *)
(*                                                                         *)
(* Numbers.  The program computes with Python floats; the model computes   *)
(* with integers.  Poses, errors, gains and thrusts are integer valued,    *)
(* a joystick axis is counted in units of 1/JoyUnit, and cos/sin are taken *)
(* from a table in thousandths (TrigScale) for the yaw angles the model    *)
(* uses.                                                                   *)
(*                                                                         *)
(* Threads.  The control loop (Navigation_Controller.run) is one process,  *)
(* whose position is pc; the command listener thread delivers one message  *)
(* to its callback per step.  A step of the control loop is one comparison *)
(* of the if/elif chain of run together with the routine it selects.       *)
(***************************************************************************)
EXTENDS Integers, Sequences, FiniteSets, TLC

VARIABLES
    \* Navigation_Controller
    sub_killed,               \* 1: soft-killed, 0: un-killed
    movement_mode,            \* 0 PID tuner, 1 thruster test, 2 remote, 3 autonomous
    current_position,         \* [roll, pitch, yaw, north, east, depth]
    desired_position,         \* same layout
    pos_error,                \* errors stored by the PID tuner branch
    remote_commands,          \* [yaw, x, y, depth, hold_depth, record_waypoint, zero_position]
    enable_waypoint_collection,
    waypoint_file,            \* "None", "open" or "closed"
    current_waypoint_number,
    waypoint_rows,            \* rows written through waypoint_csv_writer
    zero_position_published,  \* number of ZERO_POSITION(True) publications
    pc,                       \* position of the control loop in run
    \* Movement_PID
    param_server,             \* the parameter database get_param reads
    cfg,                      \* attributes loaded from the parameter server
    pid,                      \* the six PID_Controller objects
    thrusters,                \* value last passed to set_thrust of each thruster
    remote_desired_depth,
    remote_depth_recorded,
    \* observation of the calls made
    ran,                      \* routine invoked by the last step of the control loop
    pid_input,                \* per axis: {} or {error passed to control_step} in the last control law
    kill_cleared,             \* a KILL_SUB message carrying false has been ingested
    \* call record of the specifications that exercise one routine
    fn_args,
    fn_ret,
    \* observation of the depth hold
    hold_log,                 \* what the commands and the remote_move ticks have shown of hold_depth
    \* the command-listener thread
    listener_pc,              \* position of _command_listener: "poll" while its loop runs
    \* Remote_Control_Input
    remote_input              \* its fields _remote_depth_hold, _record_waypoint, _zero_waypoint

vars == << sub_killed, movement_mode, current_position, desired_position, pos_error,
           remote_commands, enable_waypoint_collection, waypoint_file,
           current_waypoint_number, waypoint_rows, zero_position_published, pc,
           param_server, cfg, pid, thrusters, remote_desired_depth,
           remote_depth_recorded, ran, pid_input, kill_cleared, fn_args, fn_ret,
           hold_log, listener_pc, remote_input >>

nav_vars == << sub_killed, movement_mode, current_position, desired_position, pos_error,
               remote_commands, pc, kill_cleared >>

waypoint_vars == << enable_waypoint_collection, waypoint_file, current_waypoint_number,
                    waypoint_rows, zero_position_published >>

move_vars == << param_server, cfg, pid, thrusters, remote_desired_depth, remote_depth_recorded,
                ran, pid_input >>

fn_vars == << fn_args, fn_ret, remote_input >>

----------------------------------------------------------------------------
(* Bounds of the model *)

\* a control law is stepped only while no integral accumulator of a PID
\* exceeds this magnitude
MaxIntegral == 1

\* largest number of rows in the waypoint log
MaxRows == 2

\* largest number of ZERO_POSITION publications
MaxPublished == 1

\* magnitude of the control inputs controlled_thrust is exercised on
MaxControl == 1

\* magnitude of the values bound_error is exercised on
MaxVal == 3

----------------------------------------------------------------------------
(* Fixed data of the program *)

NumThrusters == 8

ThrusterIds == 1..NumThrusters

AxisNames == {"roll", "pitch", "yaw", "x", "y", "z"}

Zero6 == <<0, 0, 0, 0, 0, 0>>

Zero8 == <<0, 0, 0, 0, 0, 0, 0, 0>>

\* the joystick value 1.0, in the model's joystick units
JoyUnit == 2

\* cos and sin are tabulated in thousandths
TrigScale == 1000

\* the orientations with thruster 4 turned half way towards y
Orientation_skewed ==
    << <<0, 0, 1>>, <<0, 1, 0>>, <<0, 0, 1>>, <<1, 1, 0>>,
       <<0, 0, 1>>, <<0, 1, 0>>, <<0, 0, 1>>, <<1, 0, 0>> >>

\* Thruster(..., orientation, location, ...) of thrusters 1..8
Orientation ==
    << <<0, 0, 1>>, <<0, 1, 0>>, <<0, 0, 1>>, <<1, 0, 0>>,
       <<0, 0, 1>>, <<0, 1, 0>>, <<0, 0, 1>>, <<1, 0, 0>> >>

Location ==
    << <<1, -1, 0>>, <<1, 0, 0>>, <<1, 1, 0>>, <<0, 1, 0>>,
       <<-1, 1, 0>>, <<-1, 0, 0>>, <<-1, -1, 0>>, <<0, -1, 0>> >>

Abs(v) == IF v < 0 THEN -v ELSE v

\* a / b rounded to the nearest integer (b > 0)
RoundDiv(a, b) == (2 * a + b) \div (2 * b)

\* math.copysign(x, y)
copysign(x, y) == IF y < 0 THEN -Abs(x) ELSE Abs(x)

\* math.cos(math.radians(deg)) and math.sin(math.radians(deg)), in thousandths
CosT(deg) ==
    CASE deg = 0 -> 1000
      [] deg = 90 \/ deg = -90 -> 0
      [] deg = 180 \/ deg = -180 -> -1000
      [] deg = 170 \/ deg = -170 -> -985

SinT(deg) ==
    CASE deg = 0 \/ deg = 180 \/ deg = -180 -> 0
      [] deg = 90 -> 1000
      [] deg = -90 -> -1000
      [] deg = 170 -> 174
      [] deg = -170 -> -174

\* what math.cos(math.radians(deg)) and math.sin(math.radians(deg)) return
\* beyond the table value at the angles where the exact cosine or sine is 0,
\* in units of 6.1e-17 (math.radians(90) is not exactly pi/2):
\* math.cos(math.radians(90)) is 6.123233995736766e-17 and
\* math.sin(math.radians(180)) is 1.2246467991473532e-16
CosEps(deg) ==
    CASE deg = 90 \/ deg = -90 -> 1
      [] OTHER -> 0

SinEps(deg) ==
    CASE deg = 180 -> 2
      [] deg = -180 -> -2
      [] OTHER -> 0

\* Python truth value of a flag carried as a number
Truthy(v) == v # 0

----------------------------------------------------------------------------
(* The parameter server: the values set_up_PID_controllers and __init__    *)
(* read with get_param                                                     *)

ParamServer ==
    [ dt |-> 1,
      roll_pid  |-> [p |-> 1, i |-> 1, d |-> 1, min_error |-> -2, max_error |-> 2],
      pitch_pid |-> [p |-> 1, i |-> 1, d |-> 1, min_error |-> -2, max_error |-> 2],
      yaw_pid   |-> [p |-> 1, i |-> 1, d |-> 1, min_error |-> -2, max_error |-> 2],
      x_pid     |-> [p |-> 1, i |-> 1, d |-> 1, min_error |-> -2, max_error |-> 2],
      y_pid     |-> [p |-> 1, i |-> 1, d |-> 1, min_error |-> -2, max_error |-> 2],
      z_pid     |-> [p |-> 1, i |-> 1, d |-> 1, min_error |-> -1, max_error |-> 2,
                     bias |-> 5, active_bias_depth |-> 2],
      max_roll |-> 3, max_pitch |-> 3, min_z |-> 0, max_z |-> 6,
      Thruster_Strengths |-> <<1, 0, 0, 0, 0, 0, 0, 0>>,
      Thruster_Strengths_active_depth |-> 0,
      Remote |-> [yaw_min |-> -4, yaw_max |-> 4, x_min |-> -4, x_max |-> 8,
                  y_min |-> -4, y_max |-> 4] ]

\* a parameter database whose error ranges are all [0, 0]
FlatParamServer ==
    [ ParamServer EXCEPT
        !.roll_pid.min_error = 0, !.roll_pid.max_error = 0,
        !.pitch_pid.min_error = 0, !.pitch_pid.max_error = 0,
        !.yaw_pid.min_error = 0, !.yaw_pid.max_error = 0,
        !.x_pid.min_error = 0, !.x_pid.max_error = 0,
        !.y_pid.min_error = 0, !.y_pid.max_error = 0,
        !.z_pid.min_error = 0, !.z_pid.max_error = 0 ]

\* the attributes of Movement_PID that set_up_PID_controllers assigns from
\* parameter server ps (remote_* are assigned by __init__)
LoadCfg(ps) ==
    [ roll_min_error |-> ps.roll_pid.min_error, roll_max_error |-> ps.roll_pid.max_error,
      max_roll |-> ps.max_roll,
      pitch_min_error |-> ps.pitch_pid.min_error, pitch_max_error |-> ps.pitch_pid.max_error,
      max_pitch |-> ps.max_pitch,
      yaw_min_error |-> ps.yaw_pid.min_error, yaw_max_error |-> ps.yaw_pid.max_error,
      x_min_error |-> ps.x_pid.min_error, x_max_error |-> ps.x_pid.max_error,
      y_min_error |-> ps.y_pid.min_error, y_max_error |-> ps.y_pid.max_error,
      z_min_error |-> ps.z_pid.min_error, z_max_error |-> ps.z_pid.max_error,
      min_z |-> ps.min_z, max_z |-> ps.max_z,
      z_bias |-> ps.z_pid.bias, z_active_bias_depth |-> ps.z_pid.active_bias_depth,
      thruster_strengths |-> ps.Thruster_Strengths,
      thruster_offset_active_depth |-> ps.Thruster_Strengths_active_depth,
      remote_yaw_min_thrust |-> ps.Remote.yaw_min, remote_yaw_max_thrust |-> ps.Remote.yaw_max,
      remote_x_min_thrust |-> ps.Remote.x_min, remote_x_max_thrust |-> ps.Remote.x_max,
      remote_y_min_thrust |-> ps.Remote.y_min, remote_y_max_thrust |-> ps.Remote.y_max ]

\* the attributes after set_up_PID_controllers() re-reads parameter server
\* ps: the remote_* ranges are read by __init__ only and stay as they are
ReloadCfg(c, ps) ==
    [ LoadCfg(ps) EXCEPT
        !.remote_yaw_min_thrust = c.remote_yaw_min_thrust,
        !.remote_yaw_max_thrust = c.remote_yaw_max_thrust,
        !.remote_x_min_thrust = c.remote_x_min_thrust,
        !.remote_x_max_thrust = c.remote_x_max_thrust,
        !.remote_y_min_thrust = c.remote_y_min_thrust,
        !.remote_y_max_thrust = c.remote_y_max_thrust ]

\* the gains and dt set_up_PID_controllers hands to the PID of an axis
Gains(ps, axis) ==
    LET g == CASE axis = "roll" -> ps.roll_pid
               [] axis = "pitch" -> ps.pitch_pid
               [] axis = "yaw" -> ps.yaw_pid
               [] axis = "x" -> ps.x_pid
               [] axis = "y" -> ps.y_pid
               [] axis = "z" -> ps.z_pid
    IN  [gain_p |-> g.p, gain_i |-> g.i, gain_d |-> g.d, dt |-> ps.dt]

----------------------------------------------------------------------------
(* PID_Controller (pid_controller.py)                                      *)

\* PID_Controller(p, i, d, dt)
PID_Controller(g) ==
    [gain_p |-> g.gain_p, gain_i |-> g.gain_i, gain_d |-> g.gain_d, dt |-> g.dt,
     integral |-> 0, previous_error |-> 0]

\* set_gains(p, i, d, dt): replaces the gain tuple in place
set_gains(c, g) ==
    [c EXCEPT !.gain_p = g.gain_p, !.gain_i = g.gain_i, !.gain_d = g.gain_d, !.dt = g.dt]

\* control_step(error): the controller after the step
control_step_state(c, error) ==
    [c EXCEPT !.integral = c.integral + error * c.dt, !.previous_error = error]

\* control_step(error): the control output
control_step(c, error) ==
    c.gain_p * error
    + c.gain_i * (c.integral + error * c.dt)
    + (c.gain_d * (error - c.previous_error)) \div c.dt

----------------------------------------------------------------------------
(* Movement_PID (movement_pid.py)                                          *)

\* Movement_PID.__init__ followed by set_up_PID_controllers(True)
InitPid(ps) == [a \in AxisNames |-> PID_Controller(Gains(ps, a))]

\* simple_thrust with the strength correction of controlled_thrust applied
simple_thrust_corrected(thr, thrusts) ==
    [i \in ThrusterIds |->
        IF i <= Len(thrusts)
        THEN thrusts[i] + (thrusts[i] * cfg.thruster_strengths[i])
        ELSE thr[i]]

\* simple_thrust(thrusts): the value set_thrust receives on each thruster,
\* given the values thr received before
simple_thrust(thr, thrusts) ==
    [i \in ThrusterIds |-> IF i <= Len(thrusts) THEN thrusts[i] ELSE thr[i]]

\* a base thrust in which the surge thrusters 4 and 8 take part in yaw
base_thrust_yaw_on_surge(i, roll_control, pitch_control, yaw_control, x_control, y_control, z_control) ==
    LET o == Orientation[i]
        l == Location[i]
    IN  (-1 * roll_control * o[3] * l[2])
        + (pitch_control * o[3] * l[1])
        + (yaw_control * o[2] * l[1])
        + (yaw_control * o[1] * l[2])
        + (-1 * x_control * o[1])
        + (y_control * o[2])
        + (z_control * o[3])

\* a base thrust that grows with the square of the depth control
base_thrust_squared(i, roll_control, pitch_control, yaw_control, x_control, y_control, z_control) ==
    LET o == Orientation[i]
        l == Location[i]
    IN  (-1 * roll_control * o[3] * l[2])
        + (pitch_control * o[3] * l[1])
        + (yaw_control * o[2] * l[1])
        + (-1 * x_control * o[1])
        + (y_control * o[2])
        + (z_control * z_control * o[3])

\* the thrust controlled_thrust computes for thruster i before the strength
\* and bias corrections
base_thrust(i, roll_control, pitch_control, yaw_control, x_control, y_control, z_control) ==
    LET o == Orientation[i]
        l == Location[i]
    IN  (-1 * roll_control * o[3] * l[2])
        + (pitch_control * o[3] * l[1])
        + (yaw_control * o[2] * l[1])
        + (-1 * x_control * o[1])
        + (y_control * o[2])
        + (z_control * o[3])

\* controlled_thrust with the bias added only strictly below the activation depth
controlled_thrust_strictly_below(c, roll_control, pitch_control, yaw_control, x_control, y_control, z_control, curr_z_pos) ==
    [i \in ThrusterIds |->
        LET thrust0 == base_thrust(i, roll_control, pitch_control, yaw_control,
                                   x_control, y_control, z_control)
            thrust1 == thrust0 + (thrust0 * c.thruster_strengths[i])
        IN  IF curr_z_pos > c.z_active_bias_depth
            THEN thrust1 + (c.z_bias * Orientation[i][3])
            ELSE thrust1]

\* a controlled_thrust that adds the depth bias before the strength correction
controlled_thrust_bias_first(c, roll_control, pitch_control, yaw_control, x_control, y_control, z_control, curr_z_pos) ==
    [i \in ThrusterIds |->
        LET thrust0 == base_thrust(i, roll_control, pitch_control, yaw_control,
                                   x_control, y_control, z_control)
            thrust1 == IF curr_z_pos >= c.z_active_bias_depth
                       THEN thrust0 + (c.z_bias * Orientation[i][3])
                       ELSE thrust0
        IN  thrust1 + (thrust1 * c.thruster_strengths[i])]

\* controlled_thrust(...): the value set_thrust receives on each thruster
controlled_thrust(c, roll_control, pitch_control, yaw_control, x_control, y_control, z_control, curr_z_pos) ==
    [i \in ThrusterIds |->
        LET thrust0 == base_thrust(i, roll_control, pitch_control, yaw_control,
                                   x_control, y_control, z_control)
            thrust1 == thrust0 + (thrust0 * c.thruster_strengths[i])
        IN  IF curr_z_pos >= c.z_active_bias_depth
            THEN thrust1 + (c.z_bias * Orientation[i][3])
            ELSE thrust1]

\* bound_error without the upper limit
bound_error_unbounded_above(unbounded_error, min_error, max_error) ==
    IF unbounded_error < min_error THEN min_error ELSE unbounded_error

\* bound_error(unbounded_error, min_error, max_error)
bound_error(unbounded_error, min_error, max_error) ==
    IF unbounded_error < min_error THEN min_error
    ELSE IF unbounded_error > max_error THEN max_error
    ELSE unbounded_error

\* an interpolation that continues the line beyond xp0 and xp1
interp_extrapolating(x, xp0, xp1, fp0, fp1) ==
    fp0 + RoundDiv((x - xp0) * (fp1 - fp0), xp1 - xp0)

\* np.interp(x, [xp0, xp1], [fp0, fp1]) with xp0 < xp1
interp(x, xp0, xp1, fp0, fp1) ==
    IF x <= xp0 THEN fp0
    ELSE IF x >= xp1 THEN fp1
    ELSE fp0 + RoundDiv((x - xp0) * (fp1 - fp0), xp1 - xp0)

\* the yaw error taken as the plain difference
yaw_error_unwrapped(desired_yaw, curr_yaw) == desired_yaw - curr_yaw

\* the yaw error of advance_move before it is bounded
yaw_error_of(desired_yaw, curr_yaw) ==
    LET yaw_error == desired_yaw - curr_yaw
    IN  IF Abs(yaw_error) > 180
        THEN IF yaw_error < 0 THEN yaw_error + 360 ELSE yaw_error - 360
        ELSE yaw_error

\* an x error that is not rotated into the body frame
x_error_unrotated(curr_yaw, north_error, east_error) == north_error

\* the body-frame errors of advance_move before they are bounded
x_error_of(curr_yaw, north_error, east_error) ==
    RoundDiv((CosT(curr_yaw) * north_error) + (SinT(curr_yaw) * east_error), TrigScale)

y_error_of(curr_yaw, north_error, east_error) ==
    RoundDiv((-1 * SinT(curr_yaw) * north_error) + (CosT(curr_yaw) * east_error), TrigScale)

\* the part of x_error and y_error that comes from CosEps and SinEps, in
\* units of 6.1e-17
x_error_eps(curr_yaw, north_error, east_error) ==
    (CosEps(curr_yaw) * north_error) + (SinEps(curr_yaw) * east_error)

y_error_eps(curr_yaw, north_error, east_error) ==
    (-1 * SinEps(curr_yaw) * north_error) + (CosEps(curr_yaw) * east_error)

\* a clamp that puts the positive limit in place of a roll or pitch beyond
\* either limit
clamp_desired_unsigned(c, desired_position_) ==
    LET roll == IF Abs(desired_position_[1]) > c.max_roll THEN c.max_roll
                ELSE desired_position_[1]
        pitch == IF Abs(desired_position_[2]) > c.max_pitch THEN c.max_pitch
                 ELSE desired_position_[2]
        depth == IF desired_position_[6] < c.min_z THEN c.min_z
                 ELSE IF desired_position_[6] > c.max_z THEN c.max_z
                 ELSE desired_position_[6]
    IN  <<roll, pitch, desired_position_[3], desired_position_[4], desired_position_[5], depth>>

\* the desired position as advance_move leaves it (roll, pitch and depth
\* clamped in place)
clamp_desired(c, desired_position_) ==
    LET roll == IF Abs(desired_position_[1]) > c.max_roll
                THEN copysign(c.max_roll, desired_position_[1])
                ELSE desired_position_[1]
        pitch == IF Abs(desired_position_[2]) > c.max_pitch
                 THEN copysign(c.max_pitch, desired_position_[2])
                 ELSE desired_position_[2]
        depth == IF desired_position_[6] < c.min_z THEN c.min_z
                 ELSE IF desired_position_[6] > c.max_z THEN c.max_z
                 ELSE desired_position_[6]
    IN  <<roll, pitch, desired_position_[3], desired_position_[4], desired_position_[5], depth>>

\* the list error of advance_move
advance_errors(c, current_position_, desired_position_) ==
    LET d == clamp_desired(c, desired_position_)
        curr_yaw == current_position_[3]
        north_error == d[4] - current_position_[4]
        east_error == d[5] - current_position_[5]
    IN  << bound_error(d[1] - current_position_[1], c.roll_min_error, c.roll_max_error),
           bound_error(d[2] - current_position_[2], c.pitch_min_error, c.pitch_max_error),
           bound_error(yaw_error_of(d[3], curr_yaw), c.yaw_min_error, c.yaw_max_error),
           bound_error(x_error_of(curr_yaw, north_error, east_error),
                       c.x_min_error, c.x_max_error),
           bound_error(y_error_of(curr_yaw, north_error, east_error),
                       c.y_min_error, c.y_max_error),
           bound_error(d[6] - current_position_[6], c.z_min_error, c.z_max_error) >>

\* the errors advance_move passes to control_step, per axis
advance_inputs(error) ==
    [a \in AxisNames |->
        CASE a = "roll" -> {error[1]}
          [] a = "pitch" -> {error[2]}
          [] a = "yaw" -> {error[3]}
          [] a = "x" -> {error[4]}
          [] a = "y" -> {error[5]}
          [] a = "z" -> {error[6]}]

\* the PID controllers after the control_step calls recorded in inputs
step_pids(p, inputs) ==
    [a \in AxisNames |->
        IF inputs[a] = {} THEN p[a]
        ELSE control_step_state(p[a], CHOOSE e \in inputs[a] : TRUE)]

\* advance_move(current_position, desired_position): what it returns
\* (error), the desired position it leaves, the errors it steps the PIDs
\* with, the PIDs after it and the thrusts it writes
advance_move(c, p, current_position_, desired_position_) ==
    LET error == advance_errors(c, current_position_, desired_position_)
        roll_control == control_step(p["roll"], error[1])
        pitch_control == control_step(p["pitch"], error[2])
        yaw_control == control_step(p["yaw"], error[3])
        x_control == control_step(p["x"], error[4])
        y_control == control_step(p["y"], error[5])
        z_control == control_step(p["z"], error[6])
    IN  [ error |-> error,
          desired_position |-> clamp_desired(c, desired_position_),
          inputs |-> advance_inputs(error),
          pid |-> step_pids(p, advance_inputs(error)),
          thrusts |-> controlled_thrust(c, roll_control, pitch_control, yaw_control,
                                        x_control, y_control, z_control,
                                        current_position_[6]) ]

\* a latch that takes the current depth at every tick that sees hold_depth
remote_latch_every_tick(recorded, latched, current_position_, remote_commands_) ==
    IF Truthy(remote_commands_[5])
    THEN [remote_desired_depth |-> current_position_[6], remote_depth_recorded |-> TRUE]
    ELSE [remote_desired_depth |-> 0, remote_depth_recorded |-> FALSE]

\* the depth latch after remote_move
remote_latch(recorded, latched, current_position_, remote_commands_) ==
    IF Truthy(remote_commands_[5])
    THEN IF recorded = FALSE
         THEN [remote_desired_depth |-> current_position_[6], remote_depth_recorded |-> TRUE]
         ELSE [remote_desired_depth |-> latched, remote_depth_recorded |-> TRUE]
    ELSE [remote_desired_depth |-> 0, remote_depth_recorded |-> FALSE]

\* a depth error whose depth-hold branch is not bounded
remote_depth_error_unbounded(c, recorded, latched, current_position_, remote_commands_) ==
    IF Truthy(remote_commands_[5])
    THEN remote_latch(recorded, latched, current_position_,
                      remote_commands_).remote_desired_depth
         - current_position_[6]
    ELSE IF remote_commands_[4] <= 0
         THEN interp(remote_commands_[4], -JoyUnit, 0, c.z_min_error, 0)
         ELSE interp(remote_commands_[4], 0, JoyUnit, 0, c.z_max_error)

\* a depth error interpolated in one piece from [-1, 1] onto the error range
remote_depth_error_one_piece(c, recorded, latched, current_position_, remote_commands_) ==
    IF Truthy(remote_commands_[5])
    THEN bound_error(remote_latch(recorded, latched, current_position_,
                                  remote_commands_).remote_desired_depth
                     - current_position_[6],
                     c.z_min_error, c.z_max_error)
    ELSE interp(remote_commands_[4], -JoyUnit, JoyUnit, c.z_min_error, c.z_max_error)

\* the depth error of remote_move
remote_depth_error(c, recorded, latched, current_position_, remote_commands_) ==
    IF Truthy(remote_commands_[5])
    THEN bound_error(remote_latch(recorded, latched, current_position_,
                                  remote_commands_).remote_desired_depth
                     - current_position_[6],
                     c.z_min_error, c.z_max_error)
    ELSE IF remote_commands_[4] <= 0
         THEN interp(remote_commands_[4], -JoyUnit, 0, c.z_min_error, 0)
         ELSE interp(remote_commands_[4], 0, JoyUnit, 0, c.z_max_error)

\* a remote_move that also steps the yaw PID, with the roll error
remote_inputs_with_yaw(roll_error, pitch_error, depth_error) ==
    [a \in AxisNames |->
        CASE a = "roll" -> {roll_error}
          [] a = "pitch" -> {pitch_error}
          [] a = "yaw" -> {roll_error}
          [] a = "z" -> {depth_error}
          [] OTHER -> {}]

\* the errors remote_move passes to control_step, per axis
remote_inputs(roll_error, pitch_error, depth_error) ==
    [a \in AxisNames |->
        CASE a = "roll" -> {roll_error}
          [] a = "pitch" -> {pitch_error}
          [] a = "z" -> {depth_error}
          [] OTHER -> {}]

\* a remote_move that hands the interpolated x value on as it is
remote_move_plain_x(c, p, recorded, latched, current_position_, remote_commands_) ==
    LET roll_error == bound_error(0 - current_position_[1],
                                  c.roll_min_error, c.roll_max_error)
        pitch_error == bound_error(0 - current_position_[2],
                                   c.pitch_min_error, c.pitch_max_error)
        yaw_control == interp(remote_commands_[1], -JoyUnit, JoyUnit,
                              c.remote_yaw_min_thrust, c.remote_yaw_max_thrust)
        x_control == interp(remote_commands_[2], -JoyUnit, JoyUnit,
                            c.remote_x_min_thrust, c.remote_x_max_thrust)
        y_control == interp(remote_commands_[3], -JoyUnit, JoyUnit,
                            c.remote_y_min_thrust, c.remote_y_max_thrust)
        latch == remote_latch(recorded, latched, current_position_, remote_commands_)
        depth_error == remote_depth_error(c, recorded, latched, current_position_,
                                          remote_commands_)
        roll_control == control_step(p["roll"], roll_error)
        pitch_control == control_step(p["pitch"], pitch_error)
        z_control == control_step(p["z"], depth_error)
    IN  [ latch |-> latch,
          inputs |-> remote_inputs(roll_error, pitch_error, depth_error),
          pid |-> step_pids(p, remote_inputs(roll_error, pitch_error, depth_error)),
          thrusts |-> controlled_thrust(c, roll_control, pitch_control, yaw_control,
                                        x_control, y_control, z_control,
                                        current_position_[6]) ]

\* remote_move(current_position, remote_commands): the latch it leaves, the
\* errors it steps the PIDs with, the PIDs after it and the thrusts it writes
remote_move(c, p, recorded, latched, current_position_, remote_commands_) ==
    LET roll_error == bound_error(0 - current_position_[1],
                                  c.roll_min_error, c.roll_max_error)
        pitch_error == bound_error(0 - current_position_[2],
                                   c.pitch_min_error, c.pitch_max_error)
        yaw_control == interp(remote_commands_[1], -JoyUnit, JoyUnit,
                              c.remote_yaw_min_thrust, c.remote_yaw_max_thrust)
        x_control == interp(remote_commands_[2], -JoyUnit, JoyUnit,
                            c.remote_x_min_thrust, c.remote_x_max_thrust)
        y_control == interp(remote_commands_[3], -JoyUnit, JoyUnit,
                            c.remote_y_min_thrust, c.remote_y_max_thrust)
        latch == remote_latch(recorded, latched, current_position_, remote_commands_)
        depth_error == remote_depth_error(c, recorded, latched, current_position_,
                                          remote_commands_)
        roll_control == control_step(p["roll"], roll_error)
        pitch_control == control_step(p["pitch"], pitch_error)
        z_control == control_step(p["z"], depth_error)
    IN  [ latch |-> latch,
          inputs |-> remote_inputs(roll_error, pitch_error, depth_error),
          pid |-> step_pids(p, remote_inputs(roll_error, pitch_error, depth_error)),
          thrusts |-> controlled_thrust(c, roll_control, pitch_control, yaw_control,
                                        -1 * x_control, y_control, z_control,
                                        current_position_[6]) ]

\* every integral accumulator is within the model's bound
WithinIntegral(p) == \A a \in AxisNames : Abs(p[a].integral) <= MaxIntegral

----------------------------------------------------------------------------
(* Messages the command listener may deliver                               *)

KillMsgs == {0, 1}

ModeMsgs == {0, 1, 2, 3}

SensorMsgs == { <<0, 0, 0, 0, 0, 3>> }

DesiredMsgs == { <<0, 0, 0, 0, 0, 7>> }

\* remote commands that neither record a waypoint nor zero the position
DriveMsgs == { <<2, 0, 0, 0, 1, 0, 0>>, <<0, 2, 0, -2, 0, 0, 0>> }

RemoteMsgs == { <<2, 0, 0, 0, 1, 0, 0>>, <<0, 0, 0, 0, 0, 1, 1>> }

ThrustMsgs == { <<50, -50, 0, 0, 0, 0, 0, 0>> }

EnableMsgs == {FALSE, TRUE}

\* how a call of get_param or open inside a callback may end
Outcomes == {"ok", "get_param fails", "open fails"}

----------------------------------------------------------------------------
(* Navigation_Controller (navigation_controller.py)                        *)

\* Remote_Control_Input.__init__: depth hold off, no waypoint to record, no
\* position to zero
Remote_Control_Input_init ==
    [ remote_depth_hold |-> FALSE, record_waypoint |-> FALSE, zero_waypoint |-> FALSE ]

\* Movement_PID() as constructed by Navigation_Controller.__init__
Movement_PID_init ==
    /\ cfg = LoadCfg(param_server)
    /\ pid = InitPid(param_server)
    /\ thrusters = Zero8
    /\ remote_desired_depth = 0
    /\ remote_depth_recorded = FALSE

\* Navigation_Controller.__init__ leaving the sub un-killed
Navigation_Controller_init_unkilled ==
    /\ movement_mode = 0
    /\ sub_killed = 0
    /\ current_position = Zero6
    /\ pos_error = Zero6
    /\ desired_position = Zero6
    /\ remote_commands = <<0, 0, 0, 0, 0>>
    /\ waypoint_file = "None"
    /\ enable_waypoint_collection = FALSE
    /\ current_waypoint_number = 0
    /\ waypoint_rows = <<>>
    /\ zero_position_published = 0
    /\ pc = "kill"

\* Navigation_Controller.__init__
Navigation_Controller_init ==
    /\ movement_mode = 0
    /\ sub_killed = 1
    /\ current_position = Zero6
    /\ pos_error = Zero6
    /\ desired_position = Zero6
    /\ remote_commands = <<0, 0, 0, 0, 0>>
    /\ waypoint_file = "None"
    /\ enable_waypoint_collection = FALSE
    /\ current_waypoint_number = 0
    /\ waypoint_rows = <<>>
    /\ zero_position_published = 0
    /\ pc = "kill"

\* hold_log records, for the specification that follows the depth hold, what
\* has been shown of hold_depth (remote_commands[4]):
\*   run_depth   {} when the last remote_move tick saw hold_depth low (or no
\*               tick has run), else {d} with d the current depth seen by the
\*               first tick of the present run of remote_move ticks that saw
\*               hold_depth high
\*   rise_depth  {} when the last command received carries hold_depth low,
\*               else the depth current when hold_depth was last raised by a
\*               command, together with the depth current at the first
\*               remote_move tick that saw that assertion
\*   rise_ticked a remote_move tick has seen the present assertion
HoldLogOff == [on |-> FALSE, run_depth |-> {}, rise_depth |-> {}, rise_ticked |-> FALSE]

HoldLogOn == [HoldLogOff EXCEPT !.on = TRUE]

\* what remote_move (lines 374-386) is shown by one tick
observe_remote_tick(h, curr_position, commands) ==
    IF ~h.on THEN h
    ELSE IF Truthy(commands[5])
    THEN [h EXCEPT !.run_depth = IF h.run_depth = {} THEN {curr_position[6]} ELSE h.run_depth,
                   !.rise_depth = IF h.rise_ticked THEN h.rise_depth
                                  ELSE h.rise_depth \cup {curr_position[6]},
                   !.rise_ticked = TRUE]
    ELSE [h EXCEPT !.run_depth = {}]

\* what _read_remote_control (line 237) is shown by one command; previous is
\* the command it replaces
observe_command(h, curr_position, previous, commands) ==
    IF ~h.on THEN h
    ELSE IF Truthy(commands[5])
    THEN IF Truthy(previous[5]) THEN h
         ELSE [h EXCEPT !.rise_depth = {curr_position[6]}, !.rise_ticked = FALSE]
    ELSE [h EXCEPT !.rise_depth = {}, !.rise_ticked = FALSE]

\* the program after Navigation_Controller() with parameter database ps
Started(ps) ==
    /\ param_server = ps
    /\ Navigation_Controller_init
    /\ Movement_PID_init
    /\ ran = "none"
    /\ pid_input = [a \in AxisNames |-> {}]
    /\ kill_cleared = FALSE
    /\ hold_log = HoldLogOff
    /\ listener_pc = "poll"

Init ==
    /\ Started(ParamServer)
    /\ fn_args = <<>>
    /\ fn_ret = <<>>
    /\ remote_input = Remote_Control_Input_init

\* _update_sub_killed_state(killed_state)
update_sub_killed_state(killed_state) ==
    /\ sub_killed' = killed_state
    /\ kill_cleared' = (kill_cleared \/ killed_state = 0)
    /\ UNCHANGED << movement_mode, current_position, desired_position, pos_error,
                    remote_commands, pc >>
    /\ UNCHANGED << waypoint_vars, move_vars, fn_vars, hold_log, listener_pc >>

\* a sensor callback that copies the attitude into the stored list and
\* leaves north, east and depth for a later step
update_sensor_data_in_place(sensor_data) ==
    /\ current_position' = [i \in 1..6 |-> IF i <= 3 THEN sensor_data[i]
                                            ELSE current_position[i]]
    /\ UNCHANGED << sub_killed, movement_mode, desired_position, pos_error,
                    remote_commands, pc, kill_cleared >>
    /\ UNCHANGED << waypoint_vars, move_vars, fn_vars, hold_log, listener_pc >>

\* __update_sensor_data(sensor_data)
update_sensor_data(sensor_data) ==
    /\ current_position' = sensor_data
    /\ UNCHANGED << sub_killed, movement_mode, desired_position, pos_error,
                    remote_commands, pc, kill_cleared >>
    /\ UNCHANGED << waypoint_vars, move_vars, fn_vars, hold_log, listener_pc >>

\* a mode callback that also un-kills the sub
update_movement_mode_callback_unkills(mode) ==
    /\ movement_mode' = mode
    /\ sub_killed' = 0
    /\ UNCHANGED << current_position, desired_position, pos_error,
                    remote_commands, pc, kill_cleared >>
    /\ UNCHANGED << waypoint_vars, move_vars, fn_vars, hold_log, listener_pc >>

\* __update_movement_mode_callback(movement_mode); the flags it sets besides
\* (pid_values_update_freeze, update_pid_errors, remote_hold_depth_state,
\* remote_control_listen) are read nowhere in the program
update_movement_mode_callback(mode) ==
    /\ movement_mode' = mode
    /\ UNCHANGED << sub_killed, current_position, desired_position, pos_error,
                    remote_commands, pc, kill_cleared >>
    /\ UNCHANGED << waypoint_vars, move_vars, fn_vars, hold_log, listener_pc >>

\* a reload that leaves the thruster strengths as they were
update_pid_configs_callback_keeps_strengths ==
    /\ cfg' = [ReloadCfg(cfg, param_server) EXCEPT !.thruster_strengths = cfg.thruster_strengths]
    /\ pid' = [a \in AxisNames |-> set_gains(pid[a], Gains(param_server, a))]
    /\ UNCHANGED << param_server, thrusters, remote_desired_depth, remote_depth_recorded, ran, pid_input >>
    /\ UNCHANGED << nav_vars, waypoint_vars, fn_vars, hold_log, listener_pc >>

\* __update_pid_configs_callback(misc): set_up_PID_controllers() reloads the
\* attributes and applies the gains with set_gains
update_pid_configs_callback ==
    /\ cfg' = ReloadCfg(cfg, param_server)
    /\ pid' = [a \in AxisNames |-> set_gains(pid[a], Gains(param_server, a))]
    /\ UNCHANGED << param_server, thrusters, remote_desired_depth, remote_depth_recorded, ran, pid_input >>
    /\ UNCHANGED << nav_vars, waypoint_vars, fn_vars, hold_log, listener_pc >>

\* __unpack_desired_position_callback(desired_position)
unpack_desired_position_callback(desired) ==
    /\ desired_position' = desired
    /\ UNCHANGED << sub_killed, movement_mode, current_position, pos_error,
                    remote_commands, pc, kill_cleared >>
    /\ UNCHANGED << waypoint_vars, move_vars, fn_vars, hold_log, listener_pc >>

\* __update_thruster_test_callback(thrusts)
update_thruster_test_callback(thrusts) ==
    /\ thrusters' = simple_thrust(thrusters, thrusts)
    /\ UNCHANGED << param_server, cfg, pid, remote_desired_depth, remote_depth_recorded,
                    ran, pid_input >>
    /\ UNCHANGED << nav_vars, waypoint_vars, fn_vars, hold_log, listener_pc >>

\* a callback that logs the attitude in place of north, east and depth
read_remote_control_attitude_row(commands) ==
    /\ remote_commands' = commands
    /\ IF enable_waypoint_collection /\ Truthy(commands[6])
       THEN IF waypoint_file = "open"
            THEN /\ Len(waypoint_rows) < MaxRows
                 /\ waypoint_rows' = Append(waypoint_rows,
                        << current_waypoint_number, current_position[1],
                           current_position[2], current_position[3] >>)
                 /\ current_waypoint_number' = current_waypoint_number + 1
                 /\ IF Truthy(commands[7])
                    THEN /\ zero_position_published < MaxPublished
                         /\ zero_position_published' = zero_position_published + 1
                    ELSE UNCHANGED zero_position_published
            ELSE UNCHANGED << waypoint_rows, current_waypoint_number,
                              zero_position_published >>
       ELSE /\ UNCHANGED << waypoint_rows, current_waypoint_number >>
            /\ IF Truthy(commands[7])
               THEN /\ zero_position_published < MaxPublished
                    /\ zero_position_published' = zero_position_published + 1
               ELSE UNCHANGED zero_position_published
    /\ UNCHANGED << enable_waypoint_collection, waypoint_file >>
    /\ UNCHANGED << sub_killed, movement_mode, current_position, desired_position,
                    pos_error, pc, kill_cleared >>
    /\ hold_log' = observe_command(hold_log, current_position, remote_commands, commands)
    /\ UNCHANGED listener_pc
    /\ UNCHANGED << move_vars, fn_vars >>

\* a callback that asks for zeroing only inside the waypoint branch
read_remote_control_zero_with_waypoint(commands) ==
    /\ remote_commands' = commands
    /\ IF enable_waypoint_collection /\ Truthy(commands[6])
       THEN IF waypoint_file = "open"
            THEN /\ Len(waypoint_rows) < MaxRows
                 /\ waypoint_rows' = Append(waypoint_rows,
                        << current_waypoint_number, current_position[4],
                           current_position[5], current_position[6] >>)
                 /\ current_waypoint_number' = current_waypoint_number + 1
                 /\ IF Truthy(commands[7])
                    THEN /\ zero_position_published < MaxPublished
                         /\ zero_position_published' = zero_position_published + 1
                    ELSE UNCHANGED zero_position_published
            ELSE UNCHANGED << waypoint_rows, current_waypoint_number,
                              zero_position_published >>
       ELSE UNCHANGED << waypoint_rows, current_waypoint_number, zero_position_published >>
    /\ UNCHANGED << enable_waypoint_collection, waypoint_file >>
    /\ UNCHANGED << sub_killed, movement_mode, current_position, desired_position,
                    pos_error, pc, kill_cleared >>
    /\ hold_log' = observe_command(hold_log, current_position, remote_commands, commands)
    /\ UNCHANGED listener_pc
    /\ UNCHANGED << move_vars, fn_vars >>

\* _read_remote_control(remote_commands).  The waypoint branch raises when
\* no log was ever opened (current_waypoint_number is not set) or the log is
\* closed (writerow fails); the exception leaves the callback at that point
\* and is caught in _command_listener.
read_remote_control(commands) ==
    /\ remote_commands' = commands
    /\ IF enable_waypoint_collection /\ Truthy(commands[6])
       THEN IF waypoint_file = "open"
            THEN /\ Len(waypoint_rows) < MaxRows
                 /\ waypoint_rows' = Append(waypoint_rows,
                        << current_waypoint_number, current_position[4],
                           current_position[5], current_position[6] >>)
                 /\ current_waypoint_number' = current_waypoint_number + 1
                 /\ IF Truthy(commands[7])
                    THEN /\ zero_position_published < MaxPublished
                         /\ zero_position_published' = zero_position_published + 1
                    ELSE UNCHANGED zero_position_published
            ELSE UNCHANGED << waypoint_rows, current_waypoint_number,
                              zero_position_published >>
       ELSE /\ UNCHANGED << waypoint_rows, current_waypoint_number >>
            /\ IF Truthy(commands[7])
               THEN /\ zero_position_published < MaxPublished
                    /\ zero_position_published' = zero_position_published + 1
               ELSE UNCHANGED zero_position_published
    /\ UNCHANGED << enable_waypoint_collection, waypoint_file >>
    /\ UNCHANGED << sub_killed, movement_mode, current_position, desired_position,
                    pos_error, pc, kill_cleared >>
    /\ hold_log' = observe_command(hold_log, current_position, remote_commands, commands)
    /\ UNCHANGED listener_pc
    /\ UNCHANGED << move_vars, fn_vars >>

\* an enable that keeps counting from the previous log
update_enable_waypoint_collection_keeps_number(enable, outcome) ==
    /\ enable_waypoint_collection' = enable
    /\ IF outcome = "get_param fails"
       THEN UNCHANGED << waypoint_file, current_waypoint_number, waypoint_rows >>
       ELSE IF enable
            THEN IF outcome = "open fails"
                 THEN /\ waypoint_file' = IF waypoint_file # "None" THEN "closed"
                                          ELSE waypoint_file
                      /\ UNCHANGED << current_waypoint_number, waypoint_rows >>
                 ELSE /\ waypoint_file' = "open"
                      /\ waypoint_rows' = <<>>
                      /\ UNCHANGED current_waypoint_number
            ELSE /\ outcome = "ok"
                 /\ waypoint_file' = IF waypoint_file # "None" THEN "closed"
                                     ELSE waypoint_file
                 /\ UNCHANGED << current_waypoint_number, waypoint_rows >>
    /\ UNCHANGED zero_position_published
    /\ UNCHANGED << nav_vars, move_vars, fn_vars, hold_log, listener_pc >>

\* __update_enable_waypoint_collection(enable_waypoint_collection); outcome
\* says whether get_param and open succeed
update_enable_waypoint_collection(enable, outcome) ==
    /\ enable_waypoint_collection' = enable
    /\ IF outcome = "get_param fails"
       THEN UNCHANGED << waypoint_file, current_waypoint_number, waypoint_rows >>
       ELSE IF enable
            THEN IF outcome = "open fails"
                 THEN /\ waypoint_file' = IF waypoint_file # "None" THEN "closed"
                                          ELSE waypoint_file
                      /\ UNCHANGED << current_waypoint_number, waypoint_rows >>
                 ELSE /\ waypoint_file' = "open"
                      /\ waypoint_rows' = <<>>
                      /\ current_waypoint_number' = 0
            ELSE /\ outcome = "ok"
                 /\ waypoint_file' = IF waypoint_file # "None" THEN "closed"
                                     ELSE waypoint_file
                 /\ UNCHANGED << current_waypoint_number, waypoint_rows >>
    /\ UNCHANGED zero_position_published
    /\ UNCHANGED << nav_vars, move_vars, fn_vars, hold_log, listener_pc >>

\* _command_listener: spin_once delivers one message to its callback.
\* Here waypoint collection is never switched on and no remote command asks
\* for a waypoint or for zeroing the position.
drive_listener ==
    \/ \E killed_state \in KillMsgs : update_sub_killed_state(killed_state)
    \/ \E sensor_data \in SensorMsgs : update_sensor_data(sensor_data)
    \/ \E mode \in ModeMsgs : update_movement_mode_callback(mode)
    \/ update_pid_configs_callback
    \/ \E desired \in DesiredMsgs : unpack_desired_position_callback(desired)
    \/ \E thrusts \in ThrustMsgs : update_thruster_test_callback(thrusts)
    \/ \E commands \in DriveMsgs : read_remote_control(commands)

\* _command_listener with every subscription; get_param and open succeed
command_listener ==
    \/ \E killed_state \in KillMsgs : update_sub_killed_state(killed_state)
    \/ \E sensor_data \in SensorMsgs : update_sensor_data(sensor_data)
    \/ \E mode \in ModeMsgs : update_movement_mode_callback(mode)
    \/ update_pid_configs_callback
    \/ \E desired \in DesiredMsgs : unpack_desired_position_callback(desired)
    \/ \E thrusts \in ThrustMsgs : update_thruster_test_callback(thrusts)
    \/ \E commands \in RemoteMsgs : read_remote_control(commands)
    \/ \E enable \in EnableMsgs : update_enable_waypoint_collection(enable, "ok")

----------------------------------------------------------------------------
(* Navigation_Controller.run: one iteration of the while loop is the kill   *)
(* check followed, when the sub is not killed, by the elif chain on         *)
(* movement_mode                                                            *)

\* what the branch of movement_mode 0 does:
\*   self.pos_error = self.pid_controller.advance_move(current, desired)
pid_tuner_branch ==
    LET r == advance_move(cfg, pid, current_position, desired_position)
    IN  [ pos_error |-> r.error, desired_position |-> r.desired_position,
          pid |-> r.pid, pid_input |-> r.inputs, thrusters |-> r.thrusts,
          remote_desired_depth |-> remote_desired_depth,
          remote_depth_recorded |-> remote_depth_recorded,
          ran |-> "advance_move" ]

\* an autonomous branch that runs the remote-control law
autonomous_branch_remote ==
    LET r == remote_move(cfg, pid, remote_depth_recorded, remote_desired_depth,
                         current_position, remote_commands)
    IN  [ pos_error |-> pos_error, desired_position |-> desired_position,
          pid |-> r.pid, pid_input |-> r.inputs, thrusters |-> r.thrusts,
          remote_desired_depth |-> r.latch.remote_desired_depth,
          remote_depth_recorded |-> r.latch.remote_depth_recorded,
          ran |-> "remote_move" ]

\* what the branch of movement_mode 3 does:
\*   self.pid_controller.advance_move(current, desired)
autonomous_branch ==
    LET r == advance_move(cfg, pid, current_position, desired_position)
    IN  [ pos_error |-> pos_error, desired_position |-> r.desired_position,
          pid |-> r.pid, pid_input |-> r.inputs, thrusters |-> r.thrusts,
          remote_desired_depth |-> remote_desired_depth,
          remote_depth_recorded |-> remote_depth_recorded,
          ran |-> "advance_move" ]

\* what the branch of movement_mode 2 does:
\*   self.pid_controller.remote_move(current, remote_commands)
remote_branch ==
    LET r == remote_move(cfg, pid, remote_depth_recorded, remote_desired_depth,
                         current_position, remote_commands)
    IN  [ pos_error |-> pos_error, desired_position |-> desired_position,
          pid |-> r.pid, pid_input |-> r.inputs, thrusters |-> r.thrusts,
          remote_desired_depth |-> r.latch.remote_desired_depth,
          remote_depth_recorded |-> r.latch.remote_depth_recorded,
          ran |-> "remote_move" ]

\* a thruster-test branch that steps the PID controllers
no_branch_steps ==
    LET r == advance_move(cfg, pid, current_position, desired_position)
    IN  [ pos_error |-> pos_error, desired_position |-> desired_position,
          pid |-> r.pid, pid_input |-> r.inputs, thrusters |-> thrusters,
          remote_desired_depth |-> remote_desired_depth,
          remote_depth_recorded |-> remote_depth_recorded,
          ran |-> "nothing" ]

\* what the branch of movement_mode 1 does (continue), and what the loop
\* does when no branch matches
no_branch ==
    [ pos_error |-> pos_error, desired_position |-> desired_position,
      pid |-> pid, pid_input |-> pid_input, thrusters |-> thrusters,
      remote_desired_depth |-> remote_desired_depth,
      remote_depth_recorded |-> remote_depth_recorded,
      ran |-> "nothing" ]

\* a kill branch that leaves the thrusters alone in thruster test mode
killed_branch_unless_test ==
    [ pos_error |-> pos_error, desired_position |-> desired_position,
      pid |-> pid, pid_input |-> pid_input,
      thrusters |-> IF movement_mode = 1 THEN thrusters
                    ELSE simple_thrust(thrusters, Zero8),
      remote_desired_depth |-> remote_desired_depth,
      remote_depth_recorded |-> remote_depth_recorded,
      ran |-> "simple_thrust" ]

\* what the kill branch does: simple_thrust([0, 0, 0, 0, 0, 0, 0, 0])
killed_branch ==
    [ pos_error |-> pos_error, desired_position |-> desired_position,
      pid |-> pid, pid_input |-> pid_input,
      thrusters |-> simple_thrust(thrusters, Zero8),
      remote_desired_depth |-> remote_desired_depth,
      remote_depth_recorded |-> remote_depth_recorded,
      ran |-> "simple_thrust" ]

\* the iteration ends having done b
finish(b) ==
    /\ pos_error' = b.pos_error
    /\ desired_position' = b.desired_position
    /\ pid' = b.pid
    /\ pid_input' = b.pid_input
    /\ thrusters' = b.thrusters
    /\ remote_desired_depth' = b.remote_desired_depth
    /\ remote_depth_recorded' = b.remote_depth_recorded
    /\ ran' = b.ran
    /\ pc' = "kill"

\* the iteration goes on to the next comparison
goto(next) ==
    /\ pc' = next
    /\ UNCHANGED << pos_error, desired_position, pid, pid_input, thrusters,
                    remote_desired_depth, remote_depth_recorded, ran >>

\* if(self.sub_killed == 1)
run_kill ==
    /\ pc = "kill"
    /\ IF sub_killed = 1 THEN finish(killed_branch) ELSE goto("mode0")

\* elif self.movement_mode == 0
run_mode0 ==
    /\ pc = "mode0"
    /\ IF movement_mode = 0
       THEN WithinIntegral(pid) /\ finish(pid_tuner_branch)
       ELSE goto("mode1")

\* elif self.movement_mode == 1
run_mode1 ==
    /\ pc = "mode1"
    /\ IF movement_mode = 1 THEN finish(no_branch) ELSE goto("mode2")

\* elif self.movement_mode == 2
run_mode2 ==
    /\ pc = "mode2"
    /\ IF movement_mode = 2
       THEN WithinIntegral(pid) /\ finish(remote_branch)
       ELSE goto("mode3")

\* elif self.movement_mode == 3
run_mode3 ==
    /\ pc = "mode3"
    /\ IF movement_mode = 3
       THEN WithinIntegral(pid) /\ finish(autonomous_branch)
       ELSE finish(no_branch)

\* a step of the control loop
run ==
    /\ (run_kill \/ run_mode0 \/ run_mode1 \/ run_mode2 \/ run_mode3)
    /\ UNCHANGED << sub_killed, movement_mode, current_position, remote_commands,
                    kill_cleared, param_server, cfg >>
    /\ hold_log' = IF pc = "mode2" /\ movement_mode = 2
                   THEN observe_remote_tick(hold_log, current_position, remote_commands)
                   ELSE hold_log
    /\ UNCHANGED << waypoint_vars, fn_vars, listener_pc >>

\* the controller driven without waypoint collection
Next == drive_listener \/ run

Spec == Init /\ [][Next]_vars

\* the controller with every subscription, on a parameter database whose
\* error ranges are [0, 0]
InitAll ==
    /\ Started(FlatParamServer)
    /\ fn_args = <<>>
    /\ fn_ret = <<>>
    /\ remote_input = Remote_Control_Input_init

NextAll == command_listener \/ run

SpecAll == InitAll /\ [][NextAll]_vars

----------------------------------------------------------------------------
(* Properties of the control loop and the callbacks                        *)

\* the part of the state a control law may touch
law_state == << pos_error, desired_position, pid, pid_input, thrusters,
                remote_desired_depth, remote_depth_recorded >>

\* C1: a step of the control loop that finds sub_killed set commands 0 on
\* all 8 thrusters and ends the iteration there: no PID is stepped, the
\* desired position, the stored errors and the depth latch are untouched,
\* whatever the mode and the poses are.
C1_KilledTickZeroes ==
    [][ (run /\ pc = "kill" /\ sub_killed = 1)
        => /\ thrusters' = Zero8
           /\ ran' = "simple_thrust"
           /\ pc' = "kill"
           /\ UNCHANGED << pos_error, desired_position, pid, pid_input,
                           remote_desired_depth, remote_depth_recorded >> ]_vars

C1_Witness ==
    /\ ran = "simple_thrust"
    /\ sub_killed = 1
    /\ kill_cleared
    /\ movement_mode = 2
    /\ thrusters = Zero8
    /\ pid["z"].integral # 0
    /\ desired_position # Zero6
    /\ current_position # Zero6
    /\ remote_commands \in DriveMsgs

\* C2: while sub_killed is set, every step that changes the value commanded
\* on a thruster commands 0 on all of them.
C2_NoThrustWhileKilled ==
    [][ (sub_killed = 1 /\ thrusters' # thrusters) => thrusters' = Zero8 ]_vars

\* C3: until a KILL_SUB message carrying false has been ingested, every step
\* of the control loop is the kill branch and commands 0 on all 8 thrusters.
C3_StartsKilled ==
    [][ (run /\ ~kill_cleared)
        => /\ pc = "kill"
           /\ pc' = "kill"
           /\ thrusters' = Zero8
           /\ ran' = "simple_thrust" ]_vars

C3_Witness ==
    /\ ~kill_cleared
    /\ ran = "simple_thrust"
    /\ movement_mode = 3
    /\ desired_position \in DesiredMsgs
    /\ current_position \in SensorMsgs
    /\ remote_commands \in DriveMsgs
    /\ thrusters = Zero8

\* the mode a position of the elif chain compares movement_mode with
ModeAt(p) ==
    CASE p = "mode0" -> 0
      [] p = "mode1" -> 1
      [] p = "mode2" -> 2
      [] p = "mode3" -> 3

\* the position after a comparison that fails
AfterMiss(p) ==
    CASE p = "mode0" -> "mode1"
      [] p = "mode1" -> "mode2"
      [] p = "mode2" -> "mode3"
      [] p = "mode3" -> "kill"

\* C4: in an iteration that found the sub not killed, a comparison that
\* matches the mode runs that mode's action and ends the iteration: modes 0
\* and 3 advance_move(current, desired), mode 2 remote_move(current, remote
\* command), mode 1 nothing (no thruster command, no PID step); a comparison
\* that does not match changes nothing and passes on to the next one.
C4_DispatchByMode ==
    [][ (run /\ pc # "kill")
        => LET adv == advance_move(cfg, pid, current_position, desired_position)
               rem == remote_move(cfg, pid, remote_depth_recorded,
                                  remote_desired_depth, current_position,
                                  remote_commands)
           IN  IF movement_mode = ModeAt(pc)
               THEN /\ pc' = "kill"
                    /\ movement_mode \in {0, 3}
                       => /\ ran' = "advance_move"
                          /\ thrusters' = adv.thrusts
                          /\ pid' = adv.pid
                          /\ pid_input' = adv.inputs
                          /\ desired_position' = adv.desired_position
                          /\ UNCHANGED << remote_desired_depth, remote_depth_recorded >>
                    /\ movement_mode = 2
                       => /\ ran' = "remote_move"
                          /\ thrusters' = rem.thrusts
                          /\ pid' = rem.pid
                          /\ pid_input' = rem.inputs
                          /\ remote_desired_depth' = rem.latch.remote_desired_depth
                          /\ remote_depth_recorded' = rem.latch.remote_depth_recorded
                          /\ UNCHANGED << desired_position, pos_error >>
                    /\ movement_mode = 1
                       => /\ ran' = "nothing"
                          /\ UNCHANGED law_state
               ELSE /\ pc' = AfterMiss(pc)
                    /\ UNCHANGED law_state ]_vars

C4_Witness ==
    /\ ran = "remote_move"
    /\ sub_killed = 0
    /\ movement_mode = 2
    /\ pos_error # Zero6
    /\ remote_depth_recorded
    /\ pid_input["yaw"] = {}
    /\ pid_input["z"] # {}
    /\ thrusters # Zero8

\* C5: sub_killed changes only in _update_sub_killed_state and movement_mode
\* only in __update_movement_mode_callback; the mode callback leaves
\* sub_killed alone and the kill callback leaves movement_mode alone.
C5_KillAndModeFrame ==
    [][ /\ sub_killed' # sub_killed
           => \E killed_state \in KillMsgs : update_sub_killed_state(killed_state)
        /\ movement_mode' # movement_mode
           => \E mode \in ModeMsgs : update_movement_mode_callback(mode)
        /\ (\E mode \in ModeMsgs : update_movement_mode_callback(mode))
           => sub_killed' = sub_killed
        /\ (\E killed_state \in KillMsgs : update_sub_killed_state(killed_state))
           => movement_mode' = movement_mode ]_vars

\* un-killed with the mode that was selected while killed
C5_Witness ==
    /\ sub_killed = 0
    /\ movement_mode = 3
    /\ ran = "simple_thrust"
    /\ enable_waypoint_collection
    /\ zero_position_published > 0

\* C6 as claimed: the step of the control loop in mode 3 leaves the PID
\* state, the desired position, the stored errors and the thruster commands
\* as the branch of mode 0 would from the same state.
C6_AutonomousAsTuner ==
    [][ (run /\ pc = "mode3" /\ movement_mode = 3)
        => /\ pid' = pid_tuner_branch.pid
           /\ desired_position' = pid_tuner_branch.desired_position
           /\ thrusters' = pid_tuner_branch.thrusters
           /\ pos_error' = pid_tuner_branch.pos_error ]_vars

\* C6 amended: the step of the control loop in mode 3 leaves the PID state,
\* the desired position and the thruster commands as the branch of mode 0
\* would from the same state, and leaves the stored errors pos_error
\* unchanged (only mode 0 stores them).
C6_AutonomousSameLaw ==
    [][ (run /\ pc = "mode3" /\ movement_mode = 3)
        => /\ pid' = pid_tuner_branch.pid
           /\ pid_input' = pid_tuner_branch.pid_input
           /\ desired_position' = pid_tuner_branch.desired_position
           /\ thrusters' = pid_tuner_branch.thrusters
           /\ pos_error' = pos_error ]_vars

\* advance_move has run in mode 3 on a non-zero error and pos_error is still
\* the initial one
C6_Witness ==
    /\ ran = "advance_move"
    /\ movement_mode = 3
    /\ pos_error = Zero6
    /\ pid_input["z"] \notin {{}, {0}}
    /\ desired_position[6] = cfg.max_z
    /\ thrusters # Zero8

\* C7: the THRUSTS callback, through simple_thrust, hands thrusts[i]
\* unchanged to thruster i for each of the 8 thrusters and steps no PID.
C7_SimpleThrustDirect ==
    [][ \A thrusts \in ThrustMsgs :
            update_thruster_test_callback(thrusts)
            => /\ \A i \in ThrusterIds : thrusters'[i] = thrusts[i]
               /\ pid' = pid
               /\ pid_input' = pid_input ]_vars

\* the thrusters hold a THRUSTS message at a depth where the bias applies
C7_Witness ==
    /\ thrusters \in ThrustMsgs
    /\ cfg.thruster_strengths[1] # 0
    /\ current_position[6] >= cfg.z_active_bias_depth
    /\ pid["z"].integral # 0

----------------------------------------------------------------------------
(* bound_error on its own: the arguments are drawn at the start and the    *)
(* only step is the call                                                    *)

BoundArgs == { <<v, lo, hi>> : v \in -MaxVal..MaxVal, lo \in -MaxVal..MaxVal,
                               hi \in -MaxVal..MaxVal }

InitBound ==
    /\ Started(ParamServer)
    /\ fn_args \in BoundArgs
    /\ fn_ret = <<>>
    /\ remote_input = Remote_Control_Input_init

\* self.bound_error(unbounded_error, min_error, max_error)
call_bound_error ==
    /\ fn_ret = <<>>
    /\ fn_ret' = << bound_error(fn_args[1], fn_args[2], fn_args[3]) >>
    /\ UNCHANGED fn_args
    /\ UNCHANGED << nav_vars, waypoint_vars, move_vars, hold_log, listener_pc, remote_input >>

NextBound == call_bound_error

SpecBound == InitBound /\ [][NextBound]_vars

\* C8: for lo <= hi the value bound_error(v, lo, hi) returns lies in
\* [lo, hi]; it is v when lo <= v <= hi, lo when v < lo and hi when v > hi.
C8_BoundErrorClamps ==
    fn_ret # <<>>
    => LET v == fn_args[1]
           lo == fn_args[2]
           hi == fn_args[3]
           r == fn_ret[1]
       IN  lo <= hi
           => /\ lo <= r /\ r <= hi
              /\ (lo <= v /\ v <= hi) => r = v
              /\ v < lo => r = lo
              /\ v > hi => r = hi

\* a value above a proper range has been clamped to the upper end
C8_Witness ==
    /\ fn_ret # <<>>
    /\ fn_args[2] < fn_args[3]
    /\ fn_args[1] > fn_args[3]
    /\ fn_ret[1] = fn_args[3]

----------------------------------------------------------------------------
(* The control laws on varied configurations, poses and remote commands:   *)
(* the controller has ingested KILL_SUB(false), a mode, a pose, a desired  *)
(* pose and a remote command before the first iteration of run; afterwards *)
(* only sensor data arrives                                                 *)

\* yaw errors are not narrowed by the configured range
WideYawParamServer ==
    [ ParamServer EXCEPT !.yaw_pid.min_error = -180, !.yaw_pid.max_error = 180 ]

\* error ranges that are not symmetric, two of them ending at 0
SkewParamServer ==
    [ ParamServer EXCEPT
        !.roll_pid.min_error = -1, !.roll_pid.max_error = 2,
        !.pitch_pid.min_error = -2, !.pitch_pid.max_error = 1,
        !.yaw_pid.min_error = -3, !.yaw_pid.max_error = 1,
        !.x_pid.min_error = 0, !.x_pid.max_error = 2,
        !.y_pid.min_error = -2, !.y_pid.max_error = 0,
        !.z_pid.min_error = -2, !.z_pid.max_error = 1 ]

\* a depth error range that does not contain 0
OffZeroParamServer ==
    [ ParamServer EXCEPT !.z_pid.min_error = 1 ]

MoveParamServers ==
    { ParamServer, WideYawParamServer, SkewParamServer, OffZeroParamServer }

MovePoses ==
    { <<0, 0, 0, 0, 0, 3>>,
      <<1, -1, 90, 2, -1, 2>>,
      <<-4, 4, -90, -1, 2, 7>>,
      <<0, 0, 170, 1, 1, 0>>,
      <<0, 0, -170, 0, 3, 1>>,
      <<2, 0, 180, -2, 0, -1>>,
      <<0, -2, -180, 0, 0, 5>> }

\* the sensor data that arrives between iterations
MoveSensorMsgs == { <<0, 0, 0, 0, 0, 3>>, <<0, 0, -170, 0, 3, 1>> }

MoveRemoteMsgs ==
    DriveMsgs \cup { <<-2, -1, 1, 1, 0, 0, 0>>, <<0, 0, 0, 0, 0, 0, 0>> }

InitMove ==
    /\ param_server \in MoveParamServers
    /\ Movement_PID_init
    /\ sub_killed = 0
    /\ kill_cleared = TRUE
    /\ movement_mode \in ModeMsgs
    /\ current_position \in MovePoses
    /\ desired_position \in MovePoses
    /\ remote_commands \in MoveRemoteMsgs
    /\ pos_error = Zero6
    /\ waypoint_file = "None"
    /\ enable_waypoint_collection = FALSE
    /\ current_waypoint_number = 0
    /\ waypoint_rows = <<>>
    /\ zero_position_published = 0
    /\ pc = "kill"
    /\ ran = "none"
    /\ pid_input = [a \in AxisNames |-> {}]
    /\ hold_log = HoldLogOff
    /\ listener_pc = "poll"
    /\ fn_args = <<>>
    /\ fn_ret = <<>>
    /\ remote_input = Remote_Control_Input_init

NextMove ==
    \/ run
    \/ \E sensor_data \in MoveSensorMsgs : update_sensor_data(sensor_data)

SpecMove == InitMove /\ [][NextMove]_vars

\* the error range configured for an axis
ErrorRange(c, axis) ==
    CASE axis = "roll" -> [lo |-> c.roll_min_error, hi |-> c.roll_max_error]
      [] axis = "pitch" -> [lo |-> c.pitch_min_error, hi |-> c.pitch_max_error]
      [] axis = "yaw" -> [lo |-> c.yaw_min_error, hi |-> c.yaw_max_error]
      [] axis = "x" -> [lo |-> c.x_min_error, hi |-> c.x_max_error]
      [] axis = "y" -> [lo |-> c.y_min_error, hi |-> c.y_max_error]
      [] axis = "z" -> [lo |-> c.z_min_error, hi |-> c.z_max_error]

\* C9: on an axis configured with min_error <= 0 <= max_error, every error
\* advance_move or remote_move has passed to control_step lies within
\* [min_error, max_error]; and the six errors advance_move returns, which the
\* branch of mode 0 stores in pos_error, are the six errors it passed to
\* control_step.
C9_ErrorsWithinRange ==
    /\ \A a \in AxisNames :
          (ErrorRange(cfg, a).lo <= 0 /\ 0 <= ErrorRange(cfg, a).hi)
          => \A e \in pid_input[a] :
                ErrorRange(cfg, a).lo <= e /\ e <= ErrorRange(cfg, a).hi
    /\ (movement_mode = 0 /\ ran = "advance_move")
       => pid_input = advance_inputs(pos_error)

\* advance_move has fed a depth error cut down to the upper end of an
\* asymmetric range, and an x error raised to 0
C9_Witness ==
    /\ param_server = SkewParamServer
    /\ movement_mode = 0
    /\ ran = "advance_move"
    /\ desired_position[6] - current_position[6] > cfg.z_max_error
    /\ pid_input["z"] = {cfg.z_max_error}
    /\ pid_input["x"] = {0}
    /\ pos_error[1] = cfg.roll_min_error
    /\ pid_input = advance_inputs(pos_error)

\* C10: a step of the control loop that runs advance_move with yaws in
\* [-180, 180] computes, before bounding, a yaw error in [-180, 180] that is
\* congruent to desired - current modulo 360, and passes its bounded value to
\* the yaw PID; desired 170 with current -170 gives -20 and desired -170 with
\* current 170 gives 20.
C10_YawErrorWraps ==
    [][ (run /\ pc \in {"mode0", "mode3"} /\ movement_mode = ModeAt(pc))
        => LET desired_yaw == desired_position[3]
               curr_yaw == current_position[3]
               yaw_error == yaw_error_of(desired_yaw, curr_yaw)
           IN  /\ -180 <= yaw_error /\ yaw_error <= 180
               /\ (yaw_error - (desired_yaw - curr_yaw)) % 360 = 0
               /\ pid_input'["yaw"] = { bound_error(yaw_error, cfg.yaw_min_error,
                                                    cfg.yaw_max_error) }
               /\ (desired_yaw = 170 /\ curr_yaw = -170) => yaw_error = -20
               /\ (desired_yaw = -170 /\ curr_yaw = 170) => yaw_error = 20 ]_vars

\* advance_move has fed the yaw PID -20 for desired 170 and current -170
C10_Witness ==
    /\ param_server = WideYawParamServer
    /\ ran = "advance_move"
    /\ desired_position[3] = 170
    /\ current_position[3] = -170
    /\ pid_input["yaw"] = {-20}

\* a step of the control loop that runs advance_move
advance_tick == run /\ pc \in {"mode0", "mode3"} /\ movement_mode = ModeAt(pc)

\* the body-frame errors of an advance_move step agree with the rotation of
\* the north and east errors by the current yaw, and their bounded values
\* are what the x and y PIDs receive
BodyFrameRotation(curr_yaw, north_error, east_error) ==
    LET x_error == x_error_of(curr_yaw, north_error, east_error)
        y_error == y_error_of(curr_yaw, north_error, east_error)
    IN  /\ 2 * Abs((x_error * TrigScale) - ((CosT(curr_yaw) * north_error)
                                           + (SinT(curr_yaw) * east_error))) <= TrigScale
        /\ 2 * Abs((y_error * TrigScale) - ((CosT(curr_yaw) * east_error)
                                           - (SinT(curr_yaw) * north_error))) <= TrigScale
        /\ pid_input'["x"] = { bound_error(x_error, cfg.x_min_error, cfg.x_max_error) }
        /\ pid_input'["y"] = { bound_error(y_error, cfg.y_min_error, cfg.y_max_error) }
        /\ curr_yaw = 0 => (x_error = north_error /\ y_error = east_error)
        /\ curr_yaw = 90 => (x_error = east_error /\ y_error = -north_error)

----------------------------------------------------------------------------
(* controlled_thrust on its own: the controller is constructed on one of   *)
(* two parameter sets, the seven arguments are drawn at the start and the  *)
(* only step is the call                                                   *)

\* depth bias 5 from depth 10 on, thruster 1 with a strength offset
BiasParamServer ==
    [ ParamServer EXCEPT !.z_pid.bias = 5, !.z_pid.active_bias_depth = 10 ]

\* the same without strength offsets
PlainParamServer ==
    [ BiasParamServer EXCEPT !.Thruster_Strengths = Zero8 ]

ControlVals == -MaxControl..MaxControl

\* [roll_control, pitch_control, yaw_control, x_control, y_control, z_control, curr_z_pos]
ThrustArgs ==
    { <<r, p, w, x, y, z, d>> : r \in ControlVals, p \in ControlVals, w \in ControlVals,
                               x \in ControlVals, y \in ControlVals, z \in ControlVals,
                               d \in {9, 10, 11} }

InitThrust ==
    /\ \E ps \in {BiasParamServer, PlainParamServer} : Started(ps)
    /\ fn_args \in ThrustArgs
    /\ fn_ret = <<>>
    /\ remote_input = Remote_Control_Input_init

\* self.controlled_thrust(roll_control, ..., z_control, curr_z_pos)
call_controlled_thrust ==
    /\ fn_ret = <<>>
    /\ thrusters' = controlled_thrust(cfg, fn_args[1], fn_args[2], fn_args[3],
                                     fn_args[4], fn_args[5], fn_args[6], fn_args[7])
    /\ fn_ret' = << "None" >>
    /\ UNCHANGED << fn_args, param_server, cfg, pid, remote_desired_depth,
                    remote_depth_recorded, ran, pid_input >>
    /\ UNCHANGED << nav_vars, waypoint_vars, hold_log, listener_pc, remote_input >>

NextThrust == call_controlled_thrust

SpecThrust == InitThrust /\ [][NextThrust]_vars

\* controlled_thrust has been called where neither correction applies, so
\* that the thrusters hold the base thrust
BaseThrustSeen ==
    /\ fn_ret # <<>>
    /\ cfg.thruster_strengths = Zero8
    /\ fn_args[7] < cfg.z_active_bias_depth

\* the base thrusts of the eight thrusters for the six controls u
BaseThrusts(u) ==
    [i \in ThrusterIds |-> base_thrust(i, u[1], u[2], u[3], u[4], u[5], u[6])]

\* C12: for each of the 8 thrusters the base thrust controlled_thrust
\* computes is (-roll_c*o.z*l.y) + (pitch_c*o.z*l.x) + (yaw_c*o.y*l.x)
\* + (-x_c*o.x) + (y_c*o.y) + (z_c*o.z), with o and l the thruster's
\* orientation and location of __init__, for all six control inputs.
C12_BaseThrustFormula ==
    BaseThrustSeen
    => LET roll_c == fn_args[1]
           pitch_c == fn_args[2]
           yaw_c == fn_args[3]
           x_c == fn_args[4]
           y_c == fn_args[5]
           z_c == fn_args[6]
           o == << <<0, 0, 1>>, <<0, 1, 0>>, <<0, 0, 1>>, <<1, 0, 0>>,
                   <<0, 0, 1>>, <<0, 1, 0>>, <<0, 0, 1>>, <<1, 0, 0>> >>
           l == << <<1, -1, 0>>, <<1, 0, 0>>, <<1, 1, 0>>, <<0, 1, 0>>,
                   <<-1, 1, 0>>, <<-1, 0, 0>>, <<-1, -1, 0>>, <<0, -1, 0>> >>
       IN  \A i \in ThrusterIds :
              thrusters[i] = (0 - (roll_c * o[i][3] * l[i][2]))
                             + (pitch_c * o[i][3] * l[i][1])
                             + (yaw_c * o[i][2] * l[i][1])
                             + (0 - (x_c * o[i][1]))
                             + (y_c * o[i][2])
                             + (z_c * o[i][3])

\* all six controls are non-zero and the thrusters hold the base thrust
C12_Witness ==
    /\ BaseThrustSeen
    /\ \A k \in 1..6 : fn_args[k] # 0
    /\ thrusters[2] = fn_args[3] + fn_args[5]
    /\ thrusters[4] = 0 - fn_args[4]
    /\ thrusters # Zero8

\* the six controls u with control k changed by delta
Changed(u, k, delta) == [n \in 1..6 |-> IF n = k THEN u[n] + delta ELSE u[n]]

\* the thrusters whose base thrust differs between the controls u and v
Affected(u, v) == {i \in ThrusterIds : BaseThrusts(u)[i] # BaseThrusts(v)[i]}

\* C13: with the thrusters of __init__, changing yaw_c or y_c changes the
\* base thrust of thrusters 2 and 6 only (yaw by opposite amounts on the
\* two), changing x_c changes thrusters 4 and 8 only, and changing roll_c,
\* pitch_c or z_c changes thrusters 1, 3, 5 and 7 only.
C13_AxisThrusterGroups ==
    BaseThrustSeen
    => LET u == SubSeq(fn_args, 1, 6)
       IN  /\ thrusters = BaseThrusts(u)
           /\ \A delta \in {-2, 1, 3} :
                 /\ Affected(u, Changed(u, 1, delta)) = {1, 3, 5, 7}
                 /\ Affected(u, Changed(u, 2, delta)) = {1, 3, 5, 7}
                 /\ Affected(u, Changed(u, 6, delta)) = {1, 3, 5, 7}
                 /\ Affected(u, Changed(u, 3, delta)) = {2, 6}
                 /\ Affected(u, Changed(u, 5, delta)) = {2, 6}
                 /\ Affected(u, Changed(u, 4, delta)) = {4, 8}
                 /\ BaseThrusts(Changed(u, 3, delta))[2] - thrusters[2]
                    = thrusters[6] - BaseThrusts(Changed(u, 3, delta))[6]

\* a call with yaw and sway controls only moved thrusters 2 and 6 alone, a
\* pure yaw part would move them in opposite directions
C13_Witness ==
    /\ BaseThrustSeen
    /\ fn_args[3] # 0
    /\ fn_args[5] = 0
    /\ \A k \in {1, 2, 4, 6} : fn_args[k] = 0
    /\ thrusters[2] = 0 - thrusters[6]
    /\ {i \in ThrusterIds : thrusters[i] # 0} = {2, 6}

\* control vectors added to the one controlled_thrust was called with
ProbeControls ==
    { <<1, 0, 0, 0, 0, 0>>, <<0, 1, 0, 0, 0, 0>>, <<0, 0, 1, 0, 0, 0>>,
      <<0, 0, 0, 1, 0, 0>>, <<0, 0, 0, 0, 1, 0>>, <<0, 0, 0, 0, 0, 1>>,
      <<2, -1, 3, -2, 1, -3>>, <<-1, -1, -1, -1, -1, -1>> }

\* C14: before the strength and bias corrections the thrust of every
\* thruster is linear in the six controls: the base thrust for u + v is the
\* sum of those for u and for v, the base thrust for k * u is k times the one
\* for u, and all-zero controls give base thrust 0.
C14_BaseThrustLinear ==
    BaseThrustSeen
    => LET u == SubSeq(fn_args, 1, 6)
       IN  /\ thrusters = BaseThrusts(u)
           /\ \A v \in ProbeControls : \A i \in ThrusterIds :
                 BaseThrusts([n \in 1..6 |-> u[n] + v[n]])[i]
                 = thrusters[i] + BaseThrusts(v)[i]
           /\ \A k \in -2..3 : \A i \in ThrusterIds :
                 BaseThrusts([n \in 1..6 |-> k * u[n]])[i] = k * thrusters[i]
           /\ u = Zero6 => thrusters = Zero8

\* a call with six non-zero controls left the base thrusts on the thrusters
C14_Witness ==
    /\ BaseThrustSeen
    /\ SubSeq(fn_args, 1, 6) = <<1, -1, 1, -1, 1, -1>>
    /\ thrusters = BaseThrusts(<<1, -1, 1, -1, 1, -1>>)
    /\ \E i \in ThrusterIds : thrusters[i] # 0

\* C15: controlled_thrust adds z_bias * orientation.z to the command of a
\* thruster exactly when curr_z_pos >= z_active_bias_depth (equality
\* included) and nothing when curr_z_pos is smaller; a thruster with
\* orientation.z = 0 gets no bias.  With
\* bias 5 and activation depth 10 there is no bias at depth 9 and there is
\* at depth 10.
C15_DepthBias ==
    fn_ret # <<>>
    => LET u == SubSeq(fn_args, 1, 6)
           curr_z_pos == fn_args[7]
           bias(i) == thrusters[i] - (BaseThrusts(u)[i]
                                      + (BaseThrusts(u)[i] * cfg.thruster_strengths[i]))
       IN  /\ \A i \in ThrusterIds :
                 /\ curr_z_pos >= cfg.z_active_bias_depth
                    => bias(i) = cfg.z_bias * Orientation[i][3]
                 /\ curr_z_pos < cfg.z_active_bias_depth => bias(i) = 0
                 /\ Orientation[i][3] = 0 => bias(i) = 0
           /\ (cfg.z_bias = 5 /\ cfg.z_active_bias_depth = 10)
              => /\ curr_z_pos = 9 => \A i \in ThrusterIds : bias(i) = 0
                 /\ curr_z_pos = 10 => \A i \in {1, 3, 5, 7} : bias(i) = 5

\* at depth 10 with bias 5 from depth 10 on, all-zero controls left 5 on the
\* four vertical thrusters and 0 on the others
C15_Witness ==
    /\ fn_ret # <<>>
    /\ cfg.z_bias = 5
    /\ cfg.z_active_bias_depth = 10
    /\ fn_args[7] = 10
    /\ thrusters = <<5, 0, 5, 0, 5, 0, 5, 0>>
----------------------------------------------------------------------------
(* The depth hold of remote_move followed through commands and ticks       *)

\* parameters under which a centred joystick asks for no yaw, x or y thrust,
\* so that only the depth axis accumulates
HoldParamServer ==
    [ ParamServer EXCEPT !.Remote.x_min = -4, !.Remote.x_max = 4 ]

HoldSensorMsgs == { <<0, 0, 0, 0, 0, 3>>, <<0, 0, 0, 0, 0, 5>> }

\* centred sticks with hold_depth high, and with hold_depth low
HoldRemoteMsgs == { <<0, 0, 0, 0, 1, 0, 0>>, <<0, 0, 0, 0, 0, 0, 0>> }

\* ThrusterTest, whose tick runs no control law, and RemoteControl
HoldModeMsgs == {1, 2}

InitHold ==
    /\ param_server = HoldParamServer
    /\ Navigation_Controller_init
    /\ Movement_PID_init
    /\ ran = "none"
    /\ pid_input = [a \in AxisNames |-> {}]
    /\ kill_cleared = FALSE
    /\ hold_log = HoldLogOn
    /\ listener_pc = "poll"
    /\ fn_args = <<>>
    /\ fn_ret = <<>>
    /\ remote_input = Remote_Control_Input_init

\* _command_listener delivering kill, sensor, mode and remote messages
hold_listener ==
    \/ \E killed_state \in KillMsgs : update_sub_killed_state(killed_state)
    \/ \E sensor_data \in HoldSensorMsgs : update_sensor_data(sensor_data)
    \/ \E mode \in HoldModeMsgs : update_movement_mode_callback(mode)
    \/ \E commands \in HoldRemoteMsgs : read_remote_control(commands)

NextHold == hold_listener \/ run

SpecHold == InitHold /\ [][NextHold]_vars

\* the step of run that calls remote_move
remote_tick == run /\ pc = "mode2" /\ movement_mode = 2

\* C16: every remote_move tick that sees hold_depth high leaves the latch
\* recorded and holding the current depth seen by the first tick of the
\* present unbroken run of remote_move ticks that saw hold_depth high, so the
\* latch stays where it is when the current depth changes during the run;
\* the depth error that tick passes to the depth PID is
\* bound_error(latched depth - current depth, z_min_error, z_max_error); and
\* no step other than a remote_move tick changes the latch.
C16_HoldDepthLatched ==
    [][ /\ (remote_tick /\ Truthy(remote_commands[5]))
            => /\ remote_depth_recorded'
               /\ hold_log'.run_depth = {remote_desired_depth'}
               /\ pid_input'["z"] = { bound_error(remote_desired_depth' - current_position[6],
                                                  cfg.z_min_error, cfg.z_max_error) }
        /\ ~remote_tick => UNCHANGED << remote_desired_depth, remote_depth_recorded >>
      ]_vars

\* a later tick of a run has kept depth 3 latched while the current depth is 5
C16_Witness ==
    /\ ran = "remote_move"
    /\ Truthy(remote_commands[5])
    /\ hold_log.run_depth = {3}
    /\ remote_desired_depth = 3
    /\ current_position[6] = 5
    /\ pid_input["z"] = {-1}
    /\ pc = "kill"

\* C17: after a command with hold_depth low has followed one with
\* hold_depth high, a remote_move tick that sees hold_depth high again holds
\* a depth that was current since that re-assertion (the depth current when
\* the re-asserting command was received, or the depth current at the first
\* remote_move tick that saw it), never a depth latched before the release.
C17_ReleaseClearsLatch ==
    [][ (remote_tick /\ Truthy(remote_commands[5]))
            => remote_desired_depth' \in hold_log'.rise_depth ]_vars
----------------------------------------------------------------------------
(* Waypoint logging and the zero-position request                          *)

WaypointSensorMsgs == { <<0, 0, 90, 1, 2, 3>> }

\* the modes a message can select after the initial PIDTuning
WaypointModeMsgs == {1, 2, 3}

\* hold_depth only, record_waypoint only, zero_position only, and both flags
WaypointRemoteMsgs ==
    { <<0, 0, 0, 0, 1, 0, 0>>, <<0, 0, 0, 0, 0, 1, 0>>,
      <<0, 0, 0, 0, 0, 0, 1>>, <<0, 0, 0, 0, 0, 1, 1>> }

InitWaypoint ==
    /\ Started(FlatParamServer)
    /\ fn_args = <<>>
    /\ fn_ret = <<>>
    /\ remote_input = Remote_Control_Input_init

\* _command_listener delivering kill, sensor, mode, remote and enable
\* messages; get_param and open succeed
waypoint_listener ==
    \/ \E killed_state \in KillMsgs : update_sub_killed_state(killed_state)
    \/ \E sensor_data \in WaypointSensorMsgs : update_sensor_data(sensor_data)
    \/ \E mode \in WaypointModeMsgs : update_movement_mode_callback(mode)
    \/ \E commands \in WaypointRemoteMsgs : read_remote_control(commands)
    \/ \E enable \in EnableMsgs : update_enable_waypoint_collection(enable, "ok")

NextWaypoint == waypoint_listener \/ run

SpecWaypoint == InitWaypoint /\ [][NextWaypoint]_vars

----------------------------------------------------------------------------
(* Reloading the configuration while the parameter server changes          *)

\* a parameter database that differs from ParamServer in every value
ReloadedParamServer ==
    [ dt |-> 2,
      roll_pid  |-> [p |-> 2, i |-> 0, d |-> 2, min_error |-> -1, max_error |-> 1],
      pitch_pid |-> [p |-> 3, i |-> 0, d |-> 2, min_error |-> -1, max_error |-> 1],
      yaw_pid   |-> [p |-> 4, i |-> 0, d |-> 2, min_error |-> -1, max_error |-> 1],
      x_pid     |-> [p |-> 5, i |-> 0, d |-> 2, min_error |-> -1, max_error |-> 1],
      y_pid     |-> [p |-> 6, i |-> 0, d |-> 2, min_error |-> -1, max_error |-> 1],
      z_pid     |-> [p |-> 7, i |-> 0, d |-> 2, min_error |-> -2, max_error |-> 1,
                     bias |-> 9, active_bias_depth |-> 1],
      max_roll |-> 2, max_pitch |-> 1, min_z |-> 1, max_z |-> 4,
      Thruster_Strengths |-> <<0, 1, 2, 3, 4, 5, 6, 7>>,
      Thruster_Strengths_active_depth |-> 1,
      Remote |-> [yaw_min |-> -2, yaw_max |-> 2, x_min |-> -2, x_max |-> 2,
                  y_min |-> -2, y_max |-> 2] ]

ReloadParamServers == {ParamServer, ReloadedParamServer}

ReloadModeMsgs == {0, 2}

InitReload ==
    /\ Started(ParamServer)
    /\ fn_args = <<>>
    /\ fn_ret = <<>>
    /\ remote_input = Remote_Control_Input_init

\* the owner of the parameter database replaces its values
store_write(ps) ==
    /\ param_server' = ps
    /\ UNCHANGED << cfg, pid, thrusters, remote_desired_depth, remote_depth_recorded, ran, pid_input >>
    /\ UNCHANGED << nav_vars, waypoint_vars, fn_vars, hold_log, listener_pc >>

\* _command_listener delivering kill, sensor, mode and reload messages
reload_listener ==
    \/ \E killed_state \in KillMsgs : update_sub_killed_state(killed_state)
    \/ \E sensor_data \in SensorMsgs : update_sensor_data(sensor_data)
    \/ \E mode \in ReloadModeMsgs : update_movement_mode_callback(mode)
    \/ update_pid_configs_callback

NextReload == reload_listener \/ run \/ \E ps \in ReloadParamServers : store_write(ps)

SpecReload == InitReload /\ [][NextReload]_vars

\* the parameters of an axis in the parameter database
StoredPid(ps, axis) ==
    CASE axis = "roll" -> ps.roll_pid
      [] axis = "pitch" -> ps.pitch_pid
      [] axis = "yaw" -> ps.yaw_pid
      [] axis = "x" -> ps.x_pid
      [] axis = "y" -> ps.y_pid
      [] axis = "z" -> ps.z_pid

\* C21: after a reload message is processed, each of the six PID
\* controllers carries the p, i, d of its axis and the dt now in the
\* parameter database, and is the controller that existed before (its
\* accumulated integral and previous error are those it had); the error
\* bounds of the six axes, max_roll, max_pitch, min_z, max_z, the depth bias
\* with its activation depth and the eight thruster strengths equal the
\* values now in the parameter database.
C21_ReloadInstallsStore ==
    [][ update_pid_configs_callback
          => /\ \A a \in AxisNames :
                   /\ pid'[a].gain_p = StoredPid(param_server, a).p
                   /\ pid'[a].gain_i = StoredPid(param_server, a).i
                   /\ pid'[a].gain_d = StoredPid(param_server, a).d
                   /\ pid'[a].dt = param_server.dt
                   /\ pid'[a].integral = pid[a].integral
                   /\ pid'[a].previous_error = pid[a].previous_error
             /\ << cfg'.roll_min_error, cfg'.roll_max_error >>
                  = << param_server.roll_pid.min_error, param_server.roll_pid.max_error >>
             /\ << cfg'.pitch_min_error, cfg'.pitch_max_error >>
                  = << param_server.pitch_pid.min_error, param_server.pitch_pid.max_error >>
             /\ << cfg'.yaw_min_error, cfg'.yaw_max_error >>
                  = << param_server.yaw_pid.min_error, param_server.yaw_pid.max_error >>
             /\ << cfg'.x_min_error, cfg'.x_max_error >>
                  = << param_server.x_pid.min_error, param_server.x_pid.max_error >>
             /\ << cfg'.y_min_error, cfg'.y_max_error >>
                  = << param_server.y_pid.min_error, param_server.y_pid.max_error >>
             /\ << cfg'.z_min_error, cfg'.z_max_error >>
                  = << param_server.z_pid.min_error, param_server.z_pid.max_error >>
             /\ << cfg'.max_roll, cfg'.max_pitch, cfg'.min_z, cfg'.max_z >>
                  = << param_server.max_roll, param_server.max_pitch,
                       param_server.min_z, param_server.max_z >>
             /\ << cfg'.z_bias, cfg'.z_active_bias_depth >>
                  = << param_server.z_pid.bias, param_server.z_pid.active_bias_depth >>
             /\ cfg'.thruster_strengths = param_server.Thruster_Strengths
      ]_vars

\* the reloaded values are installed on a depth controller that has
\* accumulated an integral
C21_Witness ==
    /\ param_server = ReloadedParamServer
    /\ cfg.thruster_strengths = <<0, 1, 2, 3, 4, 5, 6, 7>>
    /\ cfg.z_bias = 9
    /\ pid["z"].gain_p = 7
    /\ pid["z"].dt = 2
    /\ pid["z"].integral # 0
    /\ cfg.remote_x_max_thrust = 8
----------------------------------------------------------------------------
(* Errors raised inside the control loop and inside the command listener   *)

ZeroDtParamServer == [FlatParamServer EXCEPT !.dt = 0]

FaultParamServers == {FlatParamServer, ZeroDtParamServer}

InitFault ==
    /\ \E ps \in FaultParamServers : Started(ps)
    /\ fn_args = <<>>
    /\ fn_ret = <<>>
    /\ remote_input = Remote_Control_Input_init

\* every PID controller has a dt it can divide by
DtSet(p) == \A a \in AxisNames : p[a].dt # 0

\* the comparison the control loop is at selects a control law
law_tick_due == pc \in {"mode0", "mode2", "mode3"} /\ movement_mode = ModeAt(pc)

\* a step of the control loop that raises nothing
tick == (law_tick_due => DtSet(pid)) /\ run

\* the routine doing b is left by an exception raised in its k-th call of
\* set_thrust; run has no handler, so the exception leaves the while loop
\* (the value advance_move would return is never assigned)
escape(b, k) ==
    /\ desired_position' = b.desired_position
    /\ pid' = b.pid
    /\ pid_input' = b.pid_input
    /\ thrusters' = [i \in ThrusterIds |-> IF i < k THEN b.thrusters[i] ELSE thrusters[i]]
    /\ remote_desired_depth' = b.remote_desired_depth
    /\ remote_depth_recorded' = b.remote_depth_recorded
    /\ ran' = b.ran
    /\ pc' = "ended"
    /\ UNCHANGED pos_error

\* a step of the control loop in which a thruster write raises
run_raises ==
    /\ \E k \in ThrusterIds :
          \/ pc = "kill" /\ sub_killed = 1 /\ escape(killed_branch, k)
          \/ /\ pc = "mode0" /\ movement_mode = 0
             /\ DtSet(pid) /\ WithinIntegral(pid) /\ escape(pid_tuner_branch, k)
          \/ /\ pc = "mode2" /\ movement_mode = 2
             /\ DtSet(pid) /\ WithinIntegral(pid) /\ escape(remote_branch, k)
          \/ /\ pc = "mode3" /\ movement_mode = 3
             /\ DtSet(pid) /\ WithinIntegral(pid) /\ escape(autonomous_branch, k)
    /\ UNCHANGED << sub_killed, movement_mode, current_position, remote_commands,
                    kill_cleared, param_server, cfg >>
    /\ UNCHANGED << waypoint_vars, fn_vars, hold_log, listener_pc >>

\* a step of the control loop in which control_step divides by a dt of 0:
\* the routine has clamped the desired position, or set the depth latch, and
\* is left at its first control_step
run_divides ==
    /\ law_tick_due
    /\ ~DtSet(pid)
    /\ desired_position' = IF movement_mode = 2 THEN desired_position
                           ELSE clamp_desired(cfg, desired_position)
    /\ remote_desired_depth' =
          IF movement_mode = 2
          THEN remote_latch(remote_depth_recorded, remote_desired_depth,
                            current_position, remote_commands).remote_desired_depth
          ELSE remote_desired_depth
    /\ remote_depth_recorded' =
          IF movement_mode = 2
          THEN remote_latch(remote_depth_recorded, remote_desired_depth,
                            current_position, remote_commands).remote_depth_recorded
          ELSE remote_depth_recorded
    /\ ran' = IF movement_mode = 2 THEN "remote_move" ELSE "advance_move"
    /\ pc' = "ended"
    /\ UNCHANGED << pos_error, pid, pid_input, thrusters >>
    /\ UNCHANGED << sub_killed, movement_mode, current_position, remote_commands,
                    kill_cleared, param_server, cfg >>
    /\ UNCHANGED << waypoint_vars, fn_vars, hold_log, listener_pc >>

\* a handler that ends the listener loop
except_handler_ends == listener_pc' = "ended"

\* except Exception as e: print(...); the loop then sleeps and polls again
except_handler == listener_pc' = "poll"

\* spin_once delivers a message to a callback that returns; the thread
\* lives as long as the process, which ends with run
spin_once_delivers ==
    /\ listener_pc = "poll"
    /\ pc # "ended"
    /\ \/ \E killed_state \in KillMsgs : update_sub_killed_state(killed_state)
       \/ \E mode \in ModeMsgs : update_movement_mode_callback(mode)
       \/ update_pid_configs_callback
       \/ \E enable \in EnableMsgs : update_enable_waypoint_collection(enable, "ok")

\* spin_once raises: the transport read fails or the callback raises before
\* it has assigned anything, or __update_enable_waypoint_collection raises
\* in get_param after it has assigned the flag
spin_once_raises ==
    /\ listener_pc = "poll"
    /\ pc # "ended"
    /\ \/ UNCHANGED enable_waypoint_collection
       \/ \E enable \in EnableMsgs : enable_waypoint_collection' = enable
    /\ except_handler
    /\ UNCHANGED << waypoint_file, current_waypoint_number, waypoint_rows,
                    zero_position_published >>
    /\ UNCHANGED << nav_vars, move_vars, fn_vars, hold_log >>

NextFault ==
    \/ spin_once_delivers
    \/ spin_once_raises
    \/ tick
    \/ run_raises
    \/ run_divides
    \/ \E ps \in FaultParamServers : store_write(ps)

SpecFault == InitFault /\ [][NextFault]_vars

\* C22: a control tick in which advance_move, remote_move, simple_thrust or
\* a thruster write raises is followed by the next tick: the control loop is
\* back at its kill check.
C22_TickErrorContained ==
    [][ (run_raises \/ run_divides) => pc' = "kill" ]_vars

\* C23: a poll of the command listener in which the transport read or the
\* callback raises ends with the listener polling again, so the listener
\* is polling in every state and the messages that arrive later reach
\* their callbacks.
C23_ListenerSurvives ==
    [][ /\ spin_once_raises => listener_pc' = "poll"
        /\ listener_pc' = "poll" ]_vars

\* an enable message whose callback raised has set the flag without a log,
\* and a KILL_SUB(false) message has been delivered
C23_Witness ==
    /\ enable_waypoint_collection
    /\ waypoint_file = "None"
    /\ sub_killed = 0
    /\ listener_pc = "poll"

\* C24: no PID controller ever holds a dt of 0, whether installed by the
\* constructor at startup or by set_gains on a reload.
C24_ZeroDtRejected == \A a \in AxisNames : pid[a].dt # 0
----------------------------------------------------------------------------
(* The desired position advance_move is given and leaves                   *)

\* v brought into [lo, hi]
Within(v, lo, hi) == IF v < lo THEN lo ELSE IF v > hi THEN hi ELSE v

\* C25: a step of the control loop that runs advance_move leaves in
\* desired_position the roll brought into [-max_roll, max_roll], the pitch
\* brought into [-max_pitch, max_pitch] (the limit taking the sign of the
\* value it replaces), the depth brought into [min_z, max_z], and the yaw,
\* north and east it found; the roll, pitch and depth errors it feeds are
\* computed from the values it leaves; and a further advance_move on the
\* position it left changes nothing in it.
C25_DesiredClamped ==
    [][ advance_tick
        => /\ desired_position'[1] = Within(desired_position[1], -cfg.max_roll, cfg.max_roll)
           /\ desired_position'[2] = Within(desired_position[2], -cfg.max_pitch, cfg.max_pitch)
           /\ desired_position'[6] = Within(desired_position[6], cfg.min_z, cfg.max_z)
           /\ SubSeq(desired_position', 3, 5) = SubSeq(desired_position, 3, 5)
           /\ pid_input'["roll"] = { bound_error(desired_position'[1] - current_position[1],
                                                 cfg.roll_min_error, cfg.roll_max_error) }
           /\ pid_input'["pitch"] = { bound_error(desired_position'[2] - current_position[2],
                                                  cfg.pitch_min_error, cfg.pitch_max_error) }
           /\ pid_input'["z"] = { bound_error(desired_position'[6] - current_position[6],
                                              cfg.z_min_error, cfg.z_max_error) }
           /\ ran = "advance_move" => desired_position' = desired_position ]_vars

\* the desired position <<-4, 4, -90, -1, 2, 7>> has been left as
\* <<-3, 3, -90, -1, 2, 6>>
C25_Witness ==
    /\ ran = "advance_move"
    /\ cfg.max_roll = 3 /\ cfg.max_pitch = 3 /\ cfg.max_z = 6
    /\ desired_position = <<-3, 3, -90, -1, 2, 6>>
\* C26: the desired depth of every depth error lies within [min_z, max_z]:
\* the depth advance_move leaves in desired_position and subtracts the
\* current depth from, and the latched depth remote_move subtracts the
\* current depth from while hold_depth is high, whatever the current depth
\* was when it was latched.
C26_DesiredDepthWithinLimits ==
    [][ /\ advance_tick
            => /\ cfg.min_z <= desired_position'[6]
               /\ desired_position'[6] <= cfg.max_z
        /\ (remote_tick /\ Truthy(remote_commands[5]))
            => /\ cfg.min_z <= remote_desired_depth'
               /\ remote_desired_depth' <= cfg.max_z ]_vars
\* C27: the command controlled_thrust writes to a thruster is its base
\* thrust times (1 + strength offset of the thruster), plus, from the
\* activation depth on, z_bias times the thruster's orientation z: the bias
\* is added after the strength correction and is not scaled by it, and a
\* thruster whose base thrust is 0 receives the bias term alone (0 at a
\* smaller depth).
C27_StrengthThenBias ==
    fn_ret # <<>>
    => LET base == BaseThrusts(SubSeq(fn_args, 1, 6))
           biased == fn_args[7] >= cfg.z_active_bias_depth
           term(i) == IF biased THEN cfg.z_bias * Orientation[i][3] ELSE 0
       IN  \A i \in ThrusterIds :
              /\ thrusters[i] = (base[i] * (1 + cfg.thruster_strengths[i])) + term(i)
              /\ base[i] = 0 => thrusters[i] = term(i)

\* thruster 1, with strength offset 1 and base thrust 3, is written
\* 2 * 3 + 5 = 11 at depth 10 (the other order would give 16), while
\* thruster 3 with base thrust 1 and no offset is written 6
C27_Witness ==
    /\ fn_ret # <<>>
    /\ fn_args = <<1, 1, 0, 0, 0, 1, 10>>
    /\ cfg.thruster_strengths[1] = 1
    /\ cfg.z_bias = 5
    /\ BaseThrusts(SubSeq(fn_args, 1, 6))[1] = 3
    /\ thrusters[1] = 11
    /\ thrusters[3] = 6
----------------------------------------------------------------------------
(* remote_move: which PID controllers it steps and what it hands on        *)

\* the joystick value v mapped from [-1, 1] onto [lo, hi] as np.interp does
Interpolated(v, lo, hi) == interp(v, -JoyUnit, JoyUnit, lo, hi)

\* C28: a step of the control loop that runs remote_move calls control_step
\* once on the roll, pitch and depth PIDs, roll and pitch with
\* bound_error(0 - current), and on no other PID: the yaw, x and y PIDs are
\* left as they were.  The yaw, x and y controls it hands to
\* controlled_thrust are the interpolated joystick values: the lateral
\* thrusters 2 and 6 are written (y + yaw) and (y - yaw) times their
\* strength factor, computed from the interpolated values alone.
C28_RemotePidFrame ==
    [][ remote_tick
        => LET roll_error == bound_error(0 - current_position[1],
                                         cfg.roll_min_error, cfg.roll_max_error)
               pitch_error == bound_error(0 - current_position[2],
                                          cfg.pitch_min_error, cfg.pitch_max_error)
               yaw_c == Interpolated(remote_commands[1], cfg.remote_yaw_min_thrust,
                                     cfg.remote_yaw_max_thrust)
               y_c == Interpolated(remote_commands[3], cfg.remote_y_min_thrust,
                                   cfg.remote_y_max_thrust)
           IN  /\ pid_input'["roll"] = {roll_error}
               /\ pid_input'["pitch"] = {pitch_error}
               /\ Cardinality(pid_input'["z"]) = 1
               /\ pid'["roll"] = control_step_state(pid["roll"], roll_error)
               /\ pid'["pitch"] = control_step_state(pid["pitch"], pitch_error)
               /\ \A e \in pid_input'["z"] : pid'["z"] = control_step_state(pid["z"], e)
               /\ \A a \in {"yaw", "x", "y"} : pid_input'[a] = {} /\ pid'[a] = pid[a]
               /\ thrusters'[2] = (y_c + yaw_c) * (1 + cfg.thruster_strengths[2])
               /\ thrusters'[6] = (y_c - yaw_c) * (1 + cfg.thruster_strengths[6]) ]_vars

\* remote_move has run with roll 1, the yaw stick at -1 and the y stick at
\* 0.5: the roll PID was fed -1 and has accumulated it, the yaw PID is
\* untouched, and thrusters 2 and 6 are written 2 + (-4) and 2 - (-4)
C28_Witness ==
    /\ ran = "remote_move"
    /\ current_position[1] = 1
    /\ remote_commands = <<-2, -1, 1, 1, 0, 0, 0>>
    /\ pid_input["roll"] = {-1}
    /\ pid["roll"].integral = -1
    /\ pid_input["yaw"] = {}
    /\ pid["yaw"].integral = 0
    /\ cfg.remote_y_max_thrust = 4
    /\ thrusters[2] = -2
    /\ thrusters[6] = 6
----------------------------------------------------------------------------
(* remote_move called on joystick values inside and outside [-1, 1]        *)

\* the largest joystick deflection fed to remote_move, in units of 1/JoyUnit
MaxStick == 3

\* thrust ranges that are not symmetric about 0
OffsetRemoteParamServer ==
    [ ParamServer EXCEPT !.Remote = [yaw_min |-> -2, yaw_max |-> 6, x_min |-> 0,
                                     x_max |-> 4, y_min |-> -8, y_max |-> 4] ]

RemoteParamServers == { ParamServer, OffsetRemoteParamServer }

\* [current_position, remote_commands]: the sub level at depth 3, the depth
\* stick centred, every deflection of the yaw, x and y sticks
RemoteArgs ==
    { << <<0, 0, 0, 0, 0, 3>>, <<w, x, y, 0, 0, 0, 0>> >> :
        w \in -MaxStick..MaxStick, x \in -MaxStick..MaxStick, y \in -MaxStick..MaxStick }

InitRemote ==
    /\ \E ps \in RemoteParamServers : Started(ps)
    /\ fn_args \in RemoteArgs
    /\ fn_ret = <<>>
    /\ remote_input = Remote_Control_Input_init

\* self.remote_move(current_position, remote_commands)
call_remote_move ==
    /\ fn_ret = <<>>
    /\ LET r == remote_move(cfg, pid, remote_depth_recorded, remote_desired_depth,
                            fn_args[1], fn_args[2])
       IN  /\ thrusters' = r.thrusts
           /\ pid' = r.pid
           /\ pid_input' = r.inputs
           /\ remote_desired_depth' = r.latch.remote_desired_depth
           /\ remote_depth_recorded' = r.latch.remote_depth_recorded
    /\ ran' = "remote_move"
    /\ fn_ret' = << "None" >>
    /\ UNCHANGED << fn_args, param_server, cfg >>
    /\ UNCHANGED << nav_vars, waypoint_vars, hold_log, listener_pc, remote_input >>

NextRemote == call_remote_move

SpecRemote == InitRemote /\ [][NextRemote]_vars

\* val is what the line through (-1, lo) and (1, hi) gives at the joystick
\* value v: lo + (v + 1) / 2 * (hi - lo), with v in units of 1/JoyUnit
OnLine(val, v, lo, hi) == 2 * JoyUnit * (val - lo) = (v + JoyUnit) * (hi - lo)

\* val is the control value the claim gives for the joystick value v
RemoteControlValue(val, v, lo, hi) ==
    /\ Within(val, lo, hi) = val
    /\ v = -JoyUnit => val = lo
    /\ v = JoyUnit => val = hi
    /\ Within(v, -JoyUnit, JoyUnit) = v => OnLine(val, v, lo, hi)

\* C29: after remote_move the yaw, x and y control values, read off the
\* thrusters they alone drive (thruster 4 carries x, thrusters 2 and 6 carry
\* y + yaw and y - yaw, all three with strength offset 0), are the linear
\* interpolation of the joystick axis from [-1, 1] onto [min, max]: min at
\* -1, max at +1, min + (v + 1) / 2 * (max - min) in between, and within
\* [min, max] for every joystick value, also outside [-1, 1].
C29_RemoteInterpolation ==
    fn_ret # <<>>
    => LET yaw_control == (thrusters[2] - thrusters[6]) \div 2
           x_control == thrusters[4]
           y_control == (thrusters[2] + thrusters[6]) \div 2
       IN  /\ thrusters[2] = y_control + yaw_control
           /\ thrusters[6] = y_control - yaw_control
           /\ thrusters[8] = x_control
           /\ RemoteControlValue(yaw_control, fn_args[2][1],
                                 cfg.remote_yaw_min_thrust, cfg.remote_yaw_max_thrust)
           /\ RemoteControlValue(x_control, fn_args[2][2],
                                 cfg.remote_x_min_thrust, cfg.remote_x_max_thrust)
           /\ RemoteControlValue(y_control, fn_args[2][3],
                                 cfg.remote_y_min_thrust, cfg.remote_y_max_thrust)

\* remote_move has run on the yaw stick at 1.5, the x stick at -0.5 and the
\* y stick at -1.5 with ranges [-2, 6], [0, 4] and [-8, 4]: the controls are
\* 6, 1 and -8
C29_Witness ==
    /\ fn_ret # <<>>
    /\ param_server = OffsetRemoteParamServer
    /\ fn_args[2] = <<3, -1, -3, 0, 0, 0, 0>>
    /\ thrusters[4] = 1
    /\ thrusters[2] = -2
    /\ thrusters[6] = -14
----------------------------------------------------------------------------
(* The sign of the surge thrust under the two control laws                 *)

\* the thrusters whose orientation has x = 1
SurgeThrusters == { i \in ThrusterIds : Orientation[i][1] = 1 }

\* C30: remote_move hands the negated interpolated x value to
\* controlled_thrust, so a thruster with orientation.x = 1, which takes part
\* in no other axis, is written plus the interpolated x value (times its
\* strength factor); advance_move hands the x PID output on as it is, so the
\* same thruster is written minus that output: for the same x control value
\* the two laws drive the surge thrusters in opposite directions.
C30_RemoteSurgeSign ==
    [][ /\ remote_tick
           => \A i \in SurgeThrusters :
                thrusters'[i] = Interpolated(remote_commands[2], cfg.remote_x_min_thrust,
                                             cfg.remote_x_max_thrust)
                                * (1 + cfg.thruster_strengths[i])
        /\ advance_tick
           => \A i \in SurgeThrusters : \A e \in pid_input'["x"] :
                thrusters'[i] = (-1 * control_step(pid["x"], e))
                                * (1 + cfg.thruster_strengths[i]) ]_vars

\* remote_move has run on the x stick at +1 with the range [-4, 8]: both
\* surge thrusters are written +8
C30_Witness ==
    /\ ran = "remote_move"
    /\ remote_commands[2] = JoyUnit
    /\ cfg.remote_x_min_thrust = -4
    /\ cfg.remote_x_max_thrust = 8
    /\ SurgeThrusters = {4, 8}
    /\ thrusters[4] = 8
    /\ thrusters[8] = 8
----------------------------------------------------------------------------
(* The depth trigger of remote_move while the depth is not held            *)

\* depth error ranges that are not symmetric about 0
DiveParamServer ==
    [ HoldParamServer EXCEPT !.z_pid.min_error = -2, !.z_pid.max_error = 4 ]

RiseParamServer ==
    [ HoldParamServer EXCEPT !.z_pid.min_error = -4, !.z_pid.max_error = 2 ]

TriggerParamServers == { DiveParamServer, RiseParamServer }

TriggerSensorMsgs == { <<0, 0, 0, 0, 0, 3>>, <<0, 0, 0, 0, 0, 2>> }

\* centred sticks with hold_depth high, and with hold_depth low and every
\* position of the depth trigger from -1 to 1
TriggerRemoteMsgs ==
    { <<0, 0, 0, 0, 1, 0, 0>> } \cup { <<0, 0, 0, t, 0, 0, 0>> : t \in -JoyUnit..JoyUnit }

InitTrigger ==
    /\ \E ps \in TriggerParamServers : Started(ps)
    /\ fn_args = <<>>
    /\ fn_ret = <<>>
    /\ remote_input = Remote_Control_Input_init

\* _command_listener delivering the kill release, RemoteControl mode, sensor
\* data and remote commands
trigger_listener ==
    \/ update_sub_killed_state(0)
    \/ update_movement_mode_callback(2)
    \/ \E sensor_data \in TriggerSensorMsgs : update_sensor_data(sensor_data)
    \/ \E commands \in TriggerRemoteMsgs : read_remote_control(commands)

NextTrigger == trigger_listener \/ run

SpecTrigger == InitTrigger /\ [][NextTrigger]_vars

\* C31: a remote_move tick that sees hold_depth low feeds the depth PID the
\* error interpolated from the trigger on each half separately: a trigger t
\* in [-1, 0] gives z_min_error * (-t), a trigger in (0, 1] gives
\* z_max_error * t, so 0 gives 0, -1 gives z_min_error and +1 gives
\* z_max_error; and it leaves the latch cleared: no depth recorded, latched
\* depth 0.
C31_TriggerDepthError ==
    [][ (remote_tick /\ ~Truthy(remote_commands[5]))
        => LET t == remote_commands[4]
           IN  /\ Cardinality(pid_input'["z"]) = 1
               /\ \A e \in pid_input'["z"] :
                    /\ (-JoyUnit <= t /\ t <= 0) => JoyUnit * e = (-t) * cfg.z_min_error
                    /\ (0 < t /\ t <= JoyUnit) => JoyUnit * e = t * cfg.z_max_error
                    /\ t = 0 => e = 0
                    /\ t = -JoyUnit => e = cfg.z_min_error
                    /\ t = JoyUnit => e = cfg.z_max_error
               /\ remote_depth_recorded' = FALSE
               /\ remote_desired_depth' = 0 ]_vars

\* remote_move has run on hold_depth low and the trigger at -0.5 with the
\* depth error range [-4, 2]: the depth PID was fed -2 and the latch is clear
C31_Witness ==
    /\ ran = "remote_move"
    /\ remote_commands = <<0, 0, 0, -1, 0, 0, 0>>
    /\ cfg.z_min_error = -4
    /\ cfg.z_max_error = 2
    /\ pid_input["z"] = {-2}
    /\ remote_depth_recorded = FALSE
    /\ remote_desired_depth = 0
----------------------------------------------------------------------------
(* THRUSTS messages and the movement mode                                  *)

\* C32: a THRUSTS message delivered while the movement mode is not
\* ThrusterTest (1) changes no thruster command.
C32_ThrustsOnlyInThrusterTest ==
    [][ \A thrusts \in ThrustMsgs :
          (update_thruster_test_callback(thrusts) /\ movement_mode # 1)
          => thrusters' = thrusters ]_vars
----------------------------------------------------------------------------
(* The waypoint log and the collection flag                                *)

\* C33: whenever waypoint collection is enabled a waypoint log is open
\* (waypoint_file holds at most one file, and its writer is created with
\* it), also after a callback in which get_param or open failed.
C33_LogOpenWhileEnabled == enable_waypoint_collection => waypoint_file = "open"
----------------------------------------------------------------------------
(* The messages a control law works on                                     *)

ViewSensorMsgs == { <<0, 0, 0, 0, 0, 3>>, <<1, -1, 90, 2, -1, 2>> }

ViewDesiredMsgs == { <<0, 0, 90, 1, 1, 2>> }

ViewRemoteMsgs == { <<0, 2, 0, -2, 0, 0, 0>> }

\* PIDTuning and RemoteControl
ViewModeMsgs == {0, 2}

InitView ==
    /\ Started(ParamServer)
    /\ fn_args = <<>>
    /\ fn_ret = <<>>
    /\ remote_input = Remote_Control_Input_init

\* _command_listener delivering the kill release, modes, sensor data,
\* desired positions and remote commands
view_listener ==
    \/ update_sub_killed_state(0)
    \/ \E mode \in ViewModeMsgs : update_movement_mode_callback(mode)
    \/ \E sensor_data \in ViewSensorMsgs : update_sensor_data(sensor_data)
    \/ \E desired \in ViewDesiredMsgs : unpack_desired_position_callback(desired)
    \/ \E commands \in ViewRemoteMsgs : read_remote_control(commands)

NextView == view_listener \/ run

SpecView == InitView /\ [][NextView]_vars

\* the poses and remote commands that are one whole message, or the value
\* __init__ assigned
WholePoses == ViewSensorMsgs \cup { Zero6 }

WholeDesired == ViewDesiredMsgs \cup { Zero6 }

WholeRemote == ViewRemoteMsgs \cup { <<0, 0, 0, 0, 0>> }

\* C34: whatever the listener delivered and whenever, a step of the control
\* loop that runs a control law computes what that law computes on one
\* whole SENSOR_DATA message and one whole DESIRED_POSITION message
\* (advance_move) or one whole SENSOR_DATA message and one whole
\* REMOTE_CONTROL_COMMAND message (remote_move): the errors fed to the PIDs
\* and the thrusts written mix no components of two messages.
C34_WholeMessages ==
    [][ /\ advance_tick
           => \E m \in WholePoses : \E d \in WholeDesired :
                LET r == advance_move(cfg, pid, m, d)
                IN  pid_input' = r.inputs /\ thrusters' = r.thrusts
        /\ remote_tick
           => \E m \in WholePoses : \E c \in WholeRemote :
                LET r == remote_move(cfg, pid, remote_depth_recorded,
                                     remote_desired_depth, m, c)
                IN  pid_input' = r.inputs /\ thrusters' = r.thrusts ]_vars

\* after the sensor messages [0, 0, 0, 0, 0, 3] and [1, -1, 90, 2, -1, 2]
\* and the desired position [0, 0, 90, 1, 1, 2], advance_move has run on the
\* second pose: every axis but the depth has the error of that pose
C34_Witness ==
    /\ ran = "advance_move"
    /\ current_position = <<1, -1, 90, 2, -1, 2>>
    /\ desired_position = <<0, 0, 90, 1, 1, 2>>
    /\ pid_input["roll"] = {-1}
    /\ pid_input["pitch"] = {1}
    /\ pid_input["yaw"] = {0}
    /\ pid_input["z"] = {0}
    /\ pid["z"].integral # 0
----------------------------------------------------------------------------
(* The kill interlock under fair scheduling of the control task            *)

\* a step of the control task, whether it returns or raises
control_task == tick \/ run_raises \/ run_divides

\* the control task is scheduled again and again while it has a step to take
SpecFaultFair == SpecFault /\ WF_vars(control_task)

\* the control loop has completed a tick that found the sub killed and
\* commanded 0 on all 8 thrusters
killed_tick_done == pc = "kill" /\ ran = "simple_thrust" /\ thrusters = Zero8

\* C35: if from some point on the kill flag stays set (KILL_SUB(true)
\* ingested, no KILL_SUB(false) after it), then under fair scheduling of the
\* control task ticks that command 0 on all 8 thrusters keep occurring,
\* whatever mode is selected.
C35_KilledTickOccurs == <>[](sub_killed = 1) => []<>killed_tick_done
----------------------------------------------------------------------------
(* The control law of a tick whose mode changes under it                   *)

\* C36: with the movement mode only ever among PIDTuning (0), RemoteControl
\* (2) and Autonomous (3), a tick that has passed the kill check ends only
\* in the step whose comparison matches the mode, the step that invokes
\* that mode's control law: no tick ends with no law invoked.
C36_OneLawPerTick ==
    [][ (run /\ pc # "kill" /\ pc' = "kill")
        => (movement_mode \in {0, 2, 3} /\ movement_mode = ModeAt(pc)) ]_vars
----------------------------------------------------------------------------
(* A reload of the configuration followed write by write                   *)

\* the position of the listener inside set_up_PID_controllers while it
\* loads the strength of thruster i
StrengthPc == << "T1", "T2", "T3", "T4", "T5", "T6", "T7", "T8" >>

\* __update_pid_configs_callback up to the loop over the thrusters: the
\* bounds, limits and bias are assigned, the gains are set, and
\* self.thruster_strengths is a new list of eight zeros
reload_begin ==
    /\ listener_pc = "poll"
    /\ cfg' = [ ReloadCfg(cfg, param_server) EXCEPT
                  !.thruster_strengths = Zero8,
                  !.thruster_offset_active_depth = cfg.thruster_offset_active_depth ]
    /\ pid' = [a \in AxisNames |-> set_gains(pid[a], Gains(param_server, a))]
    /\ listener_pc' = StrengthPc[1]
    /\ UNCHANGED << param_server, thrusters, remote_desired_depth, remote_depth_recorded,
                    ran, pid_input >>
    /\ UNCHANGED << nav_vars, waypoint_vars, fn_vars, hold_log >>

\* one pass of the loop: self.thruster_strengths[i] = float(get_param(...));
\* after the last pass the active depth is assigned and the callback returns
reload_strength ==
    /\ \E i \in ThrusterIds :
          /\ listener_pc = StrengthPc[i]
          /\ cfg' = [ cfg EXCEPT
                        !.thruster_strengths[i] = param_server.Thruster_Strengths[i],
                        !.thruster_offset_active_depth =
                            IF i = NumThrusters
                            THEN param_server.Thruster_Strengths_active_depth
                            ELSE cfg.thruster_offset_active_depth ]
          /\ listener_pc' = IF i = NumThrusters THEN "poll" ELSE StrengthPc[i + 1]
    /\ UNCHANGED << param_server, pid, thrusters, remote_desired_depth,
                    remote_depth_recorded, ran, pid_input >>
    /\ UNCHANGED << nav_vars, waypoint_vars, fn_vars, hold_log >>

\* _command_listener delivering the kill release and a desired position
\* between reloads
race_listener ==
    \/ /\ listener_pc = "poll"
       /\ \/ update_sub_killed_state(0)
          \/ \E desired \in DesiredMsgs : unpack_desired_position_callback(desired)
    \/ reload_begin
    \/ reload_strength

InitRace ==
    /\ Started(ParamServer)
    /\ fn_args = <<>>
    /\ fn_ret = <<>>
    /\ remote_input = Remote_Control_Input_init

NextRace == race_listener \/ run

SpecRace == InitRace /\ [][NextRace]_vars

\* C37: the parameter store never changes here, so the values in force
\* before a reload and the values it loads are the same; every advance_move
\* tick, also one that runs while a reload is under way, therefore writes
\* the thrusts computed with the thruster strengths of the store.
C37_NoIntermediateStrength ==
    [][ advance_tick
        => thrusters' = advance_move([cfg EXCEPT !.thruster_strengths =
                                                     param_server.Thruster_Strengths],
                                     pid, current_position, desired_position).thrusts ]_vars
----------------------------------------------------------------------------
(* Backplane_Requests (backplane.py)                                       *)

\* the number of requests followed
MaxRequests == 6

\* self.header_byte = 0xEE
header_byte == 238

\* self.termination_byte = 0x50
termination_byte == 80

\* how self.backplane_serial.write(data_packet) may end
WriteOutcomes == {"ok", "write fails"}

\* request_pressure_transducer_data(): the packet handed to the serial
\* port and the value returned, for a write that ends as outcome says
request_pressure_transducer_data(outcome) ==
    [ data_packet |-> << header_byte, 65, 112 >>,
      returned |-> (outcome = "ok") ]

\* fn_args holds how the successive writes of the serial port will end,
\* fn_ret what the calls made so far handed over and returned
InitBackplane ==
    /\ Started(ParamServer)
    /\ fn_args \in [1..MaxRequests -> WriteOutcomes]
    /\ fn_ret = <<>>
    /\ remote_input = Remote_Control_Input_init

\* one call of request_pressure_transducer_data
call_request_pressure_transducer_data ==
    /\ Len(fn_ret) < Len(fn_args)
    /\ fn_ret' = Append(fn_ret, request_pressure_transducer_data(fn_args[Len(fn_ret) + 1]))
    /\ UNCHANGED << fn_args, move_vars >>
    /\ UNCHANGED << nav_vars, waypoint_vars, hold_log, listener_pc, remote_input >>

NextBackplane == call_request_pressure_transducer_data

SpecBackplane == InitBackplane /\ [][NextBackplane]_vars

\* C38: every call of request_pressure_transducer_data hands the serial
\* port the three bytes [header_byte, 0x41, termination_byte] and returns
\* True when the write succeeds and False when it raises.
C38_PressureRequestPacket ==
    \A k \in 1..Len(fn_ret) :
        /\ fn_ret[k].data_packet = << header_byte, 65, termination_byte >>
        /\ fn_ret[k].returned = (fn_args[k] = "ok")
----------------------------------------------------------------------------
(* Remote_Control_Input (remote_control_input.py)                          *)

\* the number of joystick events followed
MaxEvents == 4

\* a pygame event together with what get_axis(2), the left trigger, reads
\* when it is polled; button is -1 for an event that carries no button.
\* The sticks are centred and the right trigger is released.
JoystickEvents ==
    { [type |-> "JOYBUTTONUP", button |-> b, left_trigger |-> -JoyUnit] : b \in 0..3 }
    \cup { [type |-> "JOYBUTTONDOWN", button |-> 0, left_trigger |-> -JoyUnit] }
    \cup { [type |-> "JOYAXISMOTION", button |-> -1, left_trigger |-> t] :
             t \in {-JoyUnit, JoyUnit} }

\* an axis inside the dead zone (-0.3, 0.3) reads 0
dead_zone(a) == IF 10 * a > -3 * JoyUnit /\ 10 * a < 3 * JoyUnit THEN 0 ELSE a

\* _control(axis_array): [yaw, x, y, depth, hold_depth, record_waypoint,
\* zero_position] from [strafe, forward, left trigger, yaw, right trigger,
\* hold, record, zero]
control(axis_array) ==
    LET depth == IF axis_array[3] > 0 THEN -1 * ((axis_array[3] + JoyUnit) \div 2)
                 ELSE IF axis_array[5] > 0 THEN (axis_array[5] + JoyUnit) \div 2
                 ELSE 0
    IN  << dead_zone(axis_array[4]), dead_zone(axis_array[2]), dead_zone(axis_array[1]),
           depth, axis_array[6], axis_array[7], axis_array[8] >>

\* fn_args holds the events the joystick will deliver, fn_ret the commands
\* published so far
InitInput ==
    /\ Started(ParamServer)
    /\ fn_args \in [1..MaxEvents -> JoystickEvents]
    /\ fn_ret = <<>>
    /\ remote_input = Remote_Control_Input_init

\* an iteration of run that publishes and leaves the one-shot flags as
\* they are
input_run_keeps_flags ==
    /\ Len(fn_ret) < Len(fn_args)
    /\ LET instance == fn_args[Len(fn_ret) + 1]
           up == instance.type = "JOYBUTTONUP"
           hold == IF up /\ instance.button = 1 THEN ~remote_input.remote_depth_hold
                   ELSE remote_input.remote_depth_hold
           record == IF up /\ instance.button = 0 THEN TRUE ELSE remote_input.record_waypoint
           zero == IF up /\ instance.button = 2 THEN TRUE ELSE remote_input.zero_waypoint
       IN  /\ fn_ret' = Append(fn_ret, control(<< 0, 0, instance.left_trigger, 0, -JoyUnit,
                                                  hold, record, zero >>))
           /\ remote_input' = [ remote_depth_hold |-> hold, record_waypoint |-> record,
                                zero_waypoint |-> zero ]
    /\ UNCHANGED << fn_args, move_vars >>
    /\ UNCHANGED << nav_vars, waypoint_vars, hold_log, listener_pc >>

\* an iteration of run that finds an event: it polls the event, reads the
\* axes, applies a button release to the three fields, publishes
\* _control(self._axes) and lowers _record_waypoint and _zero_waypoint
input_run ==
    /\ Len(fn_ret) < Len(fn_args)
    /\ LET instance == fn_args[Len(fn_ret) + 1]
           up == instance.type = "JOYBUTTONUP"
           hold == IF up /\ instance.button = 1 THEN ~remote_input.remote_depth_hold
                   ELSE remote_input.remote_depth_hold
           record == IF up /\ instance.button = 0 THEN TRUE ELSE remote_input.record_waypoint
           zero == IF up /\ instance.button = 2 THEN TRUE ELSE remote_input.zero_waypoint
       IN  /\ fn_ret' = Append(fn_ret, control(<< 0, 0, instance.left_trigger, 0, -JoyUnit,
                                                  hold, record, zero >>))
           /\ remote_input' = [ remote_depth_hold |-> hold, record_waypoint |-> FALSE,
                                zero_waypoint |-> FALSE ]
    /\ UNCHANGED << fn_args, move_vars >>
    /\ UNCHANGED << nav_vars, waypoint_vars, hold_log, listener_pc >>

NextInput == input_run

SpecInput == InitInput /\ [][NextInput]_vars

\* the k-th event is the release of button b
Released(k, b) == fn_args[k].type = "JOYBUTTONUP" /\ fn_args[k].button = b

\* C39: the k-th published command carries record_waypoint high exactly
\* when the k-th event is a release of button 0 and zero_position high
\* exactly when it is a release of button 2, so each release raises its flag
\* in one command and every later command carries it low until the next
\* release; hold_depth is the hold_depth of the command before (low before
\* the first), inverted exactly when the k-th event is a release of
\* button 1.
C39_ButtonFlags ==
    \A k \in 1..Len(fn_ret) :
        /\ fn_ret[k][6] = Released(k, 0)
        /\ fn_ret[k][7] = Released(k, 2)
        /\ fn_ret[k][5] = ((IF k = 1 THEN FALSE ELSE fn_ret[k - 1][5]) # Released(k, 1))

\* buttons 0, 1 and 2 were released in turn and the left trigger was then
\* pressed: record_waypoint is high in the first command only, zero_position
\* in the third only, hold_depth from the second on
C39_Witness ==
    /\ Len(fn_ret) = 4
    /\ Released(1, 0) /\ Released(2, 1) /\ Released(3, 2)
    /\ fn_args[4].type = "JOYAXISMOTION"
    /\ fn_ret = << <<0, 0, 0, 0, FALSE, TRUE, FALSE>>, <<0, 0, 0, 0, TRUE, FALSE, FALSE>>,
                   <<0, 0, 0, 0, TRUE, FALSE, TRUE>>, <<0, 0, 0, -2, TRUE, FALSE, FALSE>> >>
    /\ remote_input.remote_depth_hold

====
